---- MODULE Spec2Model ----
(***************************************************************************)
(* Iris Data API (backend/app): the dataset cache (data/loader.py), the    *)
(* token service and access decision (core/security.py) and the data and   *)
(* admin routes (api/routes/data.py, api/routes/admin.py).                 *)
(*                                                                         *)
(* Program points are named after the source line they model, e.g. "L66"   *)
(* is loader.py line 66 and "A112" is admin.py line 112.                   *)
(***************************************************************************)
EXTENDS Integers, Sequences, FiniteSets, TLC

VARIABLES
    loader,        \* the IrisDataLoader behind get_data_loader()
    source,        \* the file at settings.data_path and how often it was rewritten
    now,           \* what datetime.utcnow() returns
    thr,           \* the frame of each thread inside the loader
    users_db,      \* auth.py users_db
    next_user_id,  \* auth.py next_user_id
    _loader,       \* loader.py _loader: 0 for None, or the place of the instance
    instances,     \* the IrisDataLoader objects created so far, in order
    started,       \* the startup part of lifespan has run
    pair,          \* the token pair issued last, and for whom
    presented,     \* the token of the call or request in progress
    outcome,       \* what that call or request returned
    held,          \* the tokens the clients were handed, and those they logged out with
    request,       \* the data request in progress
    response,      \* its response
    trace          \* what the handler of the request did, in order

loaderVars == <<loader, source, thr>>
userVars == <<users_db, next_user_id>>
processVars == <<_loader, instances, started>>
tokenVars == <<pair, presented, outcome, held>>
routeVars == <<request, response, trace>>

vars == <<loader, source, now, thr, users_db, next_user_id, _loader, instances, started,
          pair, presented, outcome, held, request, response, trace>>

----------------------------------------------------------------------------
(* Bounds of the model *)

\* longest CSV file (rows) found at data_path when the process starts
MaxRows == 2
\* longest CSV file (rows) that later replaces the file at data_path
MaxRewriteRows == 1
\* longest CSV file (rows) the two-thread specification writes to disk
MaxRowsThreads == 1
\* the most rows of the file at data_path when the endpoints start
MaxRowsRoutes == 1
\* last clock reading of the loader specifications
MaxLoadTime == 2
\* last clock reading (minutes) of the token specification
MaxTime == 32
\* times the file on disk is rewritten in one behaviour
MaxWrites == 1
\* last clock reading (minutes) at which the token specification issues a pair
MaxIssueTime == 1

----------------------------------------------------------------------------
(* Python values *)

\* None where a frame, a statistics bundle or a result is expected
None == [none |-> TRUE]
\* None where a timestamp is expected
NoTime == -1
\* a missing numeric cell (cells are tenths, never negative)
NaN == -1
\* no thread (the lock is free)
NoThread == "-"

\* the strings the model draws labels, access levels and query values from
Strings == {"setosa", "versicolor", "virginica", "Setosa", "SETOSA", "Virginica",
            "Iris-setosa", "Iris-Virginica", "iris-setosa", "iris-virginica",
            "tulip", "all", "ALL"}

\* str.lower()
Lower(s) ==
    CASE s = "Setosa" -> "setosa"
      [] s = "SETOSA" -> "setosa"
      [] s = "Virginica" -> "virginica"
      [] s = "Iris-setosa" -> "iris-setosa"
      [] s = "Iris-Virginica" -> "iris-virginica"
      [] s = "ALL" -> "all"
      [] s = "Setosa@example.com" -> "setosa@example.com"
      [] OTHER -> s

\* str.replace('iris-', '', regex=False)
ReplaceIris(s) ==
    CASE s = "iris-setosa" -> "setosa"
      [] s = "iris-virginica" -> "virginica"
      [] OTHER -> s

\* class SpeciesEnum(str, Enum)
SpeciesEnum == {"setosa", "virginica", "versicolor"}

\* class UserAccessEnum(str, Enum)
UserAccessEnum == {"setosa", "virginica", "versicolor", "all"}

----------------------------------------------------------------------------
(* Data frames: a set of column names, the dtype of the numeric columns    *)
(* and a sequence of rows.  The four numeric columns go through the same   *)
(* code (loops over numeric_cols); a row carries the sepal_length cell, in *)
(* tenths, and the species label.  read_csv gives a column the dtype       *)
(* object when a cell of it does not parse, and a frame selected from      *)
(* another keeps its dtype.                                                *)

required_cols == {"sepal_length", "sepal_width", "petal_length", "petal_width", "species"}

\* a cell that read_csv could not parse as a number (object dtype)
TextCells == {-2}

\* df[col].isna().any() over the modelled numeric column, df.isnull().any().any()
HasNaN(df) == \E i \in DOMAIN df.rows : df.rows[i].sepal_length = NaN

\* pd.api.types.is_numeric_dtype(df[col])
is_numeric_dtype(df) == df.dtype = "float64"

\* pd.to_numeric(df[col], errors='coerce'), written back into df[col]
to_numeric(df) ==
    [df EXCEPT !.dtype = "float64",
               !.rows = [i \in DOMAIN df.rows |->
        [df.rows[i] EXCEPT !.sepal_length = IF @ \in TextCells THEN NaN ELSE @]]]

\* df['species'].str.lower().str.replace('iris-', ''), written back into df['species']
CleanSpecies(df) ==
    [df EXCEPT !.rows = [i \in DOMAIN df.rows |->
        [df.rows[i] EXCEPT !.species = ReplaceIris(Lower(@))]]]

\* set(df['species'].unique())
UniqueSpecies(df) == {df.rows[i].species : i \in DOMAIN df.rows}

\* df[df['species'].isin(valid_species)]
FilterValid(df) ==
    LET Keep(r) == r.species \in SpeciesEnum
    IN [df EXCEPT !.rows = SelectSeq(df.rows, Keep)]

\* df.dropna()
dropna(df) ==
    LET Keep(r) == r.sepal_length # NaN
    IN [df EXCEPT !.rows = SelectSeq(df.rows, Keep)]

\* df[df['species'] == value]
FilterSpecies(df, value) ==
    LET Keep(r) == r.species = value
    IN [df EXCEPT !.rows = SelectSeq(df.rows, Keep)]

\* df[df['species'].str.lower() == value.lower()]
FilterSpeciesLower(df, value) ==
    LET Keep(r) == Lower(r.species) = Lower(value)
    IN [df EXCEPT !.rows = SelectSeq(df.rows, Keep)]

\* IrisDataLoader._validate_data: ok tells whether it returned, df is the
\* frame it returned, inplace is the frame it was given as the in-place
\* writes of lines 223 and 231 left it
_validate_data(df) ==
    IF required_cols \ df.columns # {}
    THEN [ok |-> FALSE, df |-> None, inplace |-> df]
    ELSE LET coerced == IF is_numeric_dtype(df) THEN df ELSE to_numeric(df)
         IN IF ~is_numeric_dtype(df) /\ HasNaN(coerced)
            THEN [ok |-> FALSE, df |-> None, inplace |-> coerced]
            ELSE LET cleaned == CleanSpecies(coerced)
                     invalid_species == UniqueSpecies(cleaned) \ SpeciesEnum
                     filtered == IF invalid_species # {} THEN FilterValid(cleaned) ELSE cleaned
                 IN IF invalid_species # {} /\ filtered.rows = <<>>
                    THEN [ok |-> FALSE, df |-> None, inplace |-> cleaned]
                    ELSE IF Len(filtered.rows) < 1
                         THEN [ok |-> FALSE, df |-> None, inplace |-> cleaned]
                         ELSE [ok |-> TRUE,
                               df |-> IF HasNaN(filtered) THEN dropna(filtered) ELSE filtered,
                               inplace |-> cleaned]

----------------------------------------------------------------------------
(* Statistics (IrisDataLoader._calculate_stats) *)

RECURSIVE SumOf(_, _)
SumOf(f, S) == IF S = {} THEN 0 ELSE LET i == CHOOSE j \in S : TRUE IN f[i] + SumOf(f, S \ {i})

\* mean (as sum and count), min and max of the numeric column, NaN skipped
ColStats(rows) ==
    LET idx == {i \in DOMAIN rows : rows[i].sepal_length # NaN}
        cell == [i \in idx |-> rows[i].sepal_length]
    IN IF idx = {}
       THEN [mean |-> <<NaN, 0>>, min |-> NaN, max |-> NaN]
       ELSE [mean |-> <<SumOf(cell, idx), Cardinality(idx)>>,
             min |-> CHOOSE v \in {cell[i] : i \in idx} : \A i \in idx : v <= cell[i],
             max |-> CHOOSE v \in {cell[i] : i \in idx} : \A i \in idx : v >= cell[i]]

\* df['species'].value_counts().to_dict()
ValueCounts(df) ==
    [s \in UniqueSpecies(df) |-> Cardinality({i \in DOMAIN df.rows : df.rows[i].species = s})]

\* the summary dict _calculate_stats builds from its local total_records, the
\* species distribution get_species_count returned and the frame it reads
Summary(total, distribution, df) ==
    [total_records |-> total,
     species_distribution |-> distribution,
     features |-> ColStats(df.rows),
     species_stats |-> [s \in UniqueSpecies(df) |->
         [count |-> Len(FilterSpecies(df, s).rows),
          features |-> ColStats(FilterSpecies(df, s).rows)]]]

\* Python's string order on the model's strings (sorted(...))
Rank(s) ==
    CASE s = "ALL" -> 1 [] s = "Iris-Virginica" -> 2 [] s = "Iris-setosa" -> 3
      [] s = "SETOSA" -> 4 [] s = "Setosa" -> 5 [] s = "Virginica" -> 6
      [] s = "all" -> 7 [] s = "iris-setosa" -> 8 [] s = "iris-virginica" -> 9
      [] s = "setosa" -> 10 [] s = "tulip" -> 11 [] s = "versicolor" -> 12
      [] s = "virginica" -> 13

RECURSIVE Sorted(_)
Sorted(S) ==
    IF S = {} THEN <<>>
    ELSE LET m == CHOOSE x \in S : \A y \in S : Rank(x) <= Rank(y)
         IN <<m>> \o Sorted(S \ {m})

\* reading a column of a frame: what the subscript raises, "" when it works
SubscriptError(df, col) ==
    IF df = None THEN "TypeError"
    ELSE IF col \notin df.columns THEN "KeyError" ELSE ""

----------------------------------------------------------------------------
(* The built-in sample: 60 records, 20 per species (sepal_length in tenths) *)

SampleSepalLength ==
    <<51, 49, 47, 46, 50, 54, 46, 50, 44, 49, 54, 48, 48, 43, 58, 57, 54, 51, 57, 51,
      70, 64, 69, 55, 65, 57, 63, 49, 66, 52, 50, 59, 60, 61, 56, 67, 56, 58, 62, 56,
      63, 58, 71, 63, 65, 76, 49, 73, 67, 72, 65, 64, 68, 57, 58, 64, 65, 77, 77, 60>>

\* a sample whose fortieth record is labelled virginica
_get_sample_data_mislabelled ==
    [columns |-> required_cols,
     dtype |-> "float64",
     rows |-> [i \in 1..60 |->
        [species |-> IF i <= 20 THEN "setosa" ELSE IF i < 40 THEN "versicolor" ELSE "virginica",
         sepal_length |-> SampleSepalLength[i]]]]

\* IrisDataLoader._get_sample_data
_get_sample_data ==
    [columns |-> required_cols,
     dtype |-> "float64",
     rows |-> [i \in 1..60 |->
        [species |-> IF i <= 20 THEN "setosa" ELSE IF i <= 40 THEN "versicolor" ELSE "virginica",
         sepal_length |-> SampleSepalLength[i]]]]

----------------------------------------------------------------------------
(* IrisDataLoader.  L is the loader object [data, last_loaded, data_stats,  *)
(* lock]; fr is the frame of the executing thread: the method it runs, the  *)
(* program point pt, the stack of callers, the local total_records of       *)
(* _calculate_stats, the value rv the last call returned, the result res    *)
(* of the finished method.                                                  *)

\* IrisDataLoader.__init__
NewLoader == [data |-> None, last_loaded |-> NoTime, data_stats |-> None, lock |-> NoThread]

NoResult == [kind |-> "none", exc |-> "", val |-> None]

IdleFrame ==
    [meth |-> "", species |-> "", force |-> FALSE, pt |-> "done", stack |-> <<>>,
     total |-> 0, rv |-> None, res |-> NoResult]

\* the first program point of a method
EntryPt(meth) ==
    CASE meth = "load_data" -> "L58"
      [] meth = "get_species_data" -> "L100"
      [] meth = "get_all_species" -> "L128"
      [] meth = "get_species_count" -> "L135"
      [] meth = "get_summary_statistics" -> "L142"
      [] meth = "clear_cache" -> "A112"

\* the frame of a thread that calls a method of the loader
CallFrame(meth, species, force) ==
    [IdleFrame EXCEPT !.meth = meth, !.species = species, !.force = force,
                      !.pt = EntryPt(meth)]

Goto(fr, L, p) == [fr |-> [fr EXCEPT !.pt = p], L |-> L]

\* call the code at target, to continue at ret when it returns
Call(fr, L, target, ret) ==
    [fr |-> [fr EXCEPT !.pt = target,
                       !.stack = <<[ret |-> ret, total |-> fr.total]>> \o @],
     L |-> L]

\* return v to the caller on the stack, or finish the method with v
Return(fr, L, v) ==
    IF fr.stack = <<>>
    THEN [fr |-> [fr EXCEPT !.pt = "done", !.rv = None, !.total = 0,
                            !.res = [kind |-> "ok", exc |-> "", val |-> v]],
          L |-> L]
    ELSE [fr |-> [fr EXCEPT !.pt = Head(fr.stack).ret, !.total = Head(fr.stack).total,
                            !.stack = Tail(fr.stack), !.rv = v],
          L |-> L]

\* raise e in thread t.  Inside load_data (the thread holds the lock) every
\* exception leaves as DataLoadError (lines 79-85) and the with-statement
\* releases the lock; no method of the loader catches anything else
Raise(t, fr, L, e) ==
    [fr |-> [fr EXCEPT !.pt = "done", !.stack = <<>>, !.rv = None, !.total = 0,
                       !.res = [kind |-> "exc",
                                exc |-> IF L.lock = t THEN "DataLoadError" ELSE e,
                                val |-> None]],
     L |-> IF L.lock = t THEN [L EXCEPT !.lock = NoThread] ELSE L]

\* df.copy()
Copy(df) == df

\* CanStep without the lock: no thread waits at line 58
CanStep_unlocked(t, fr, L) == fr.pt # "done"

\* whether thread t can take a step: it waits at line 58 while the lock is held
CanStep(t, fr, L) == fr.pt # "done" /\ (fr.pt = "L58" => L.lock = NoThread)

\* one step of thread t at program point fr.pt; src is the file at data_path,
\* clk what datetime.utcnow() returns
Step(t, fr, L, src, clk) ==
    CASE fr.pt = "L58" -> Goto(fr, [L EXCEPT !.lock = t], "L59")
      [] fr.pt = "L59" ->
            IF L.data # None /\ ~fr.force
            THEN Return(fr, [L EXCEPT !.lock = NoThread], Copy(L.data))
            ELSE Goto(fr, L, "L64")
      [] fr.pt = "L64" -> IF src.exists THEN Goto(fr, L, "L66") ELSE Goto(fr, L, "L73")
      [] fr.pt = "L66" ->
            IF src.empty THEN Raise(t, fr, L, "EmptyDataError")
            ELSE Goto(fr, [L EXCEPT !.data = src.df], "L67")
      [] fr.pt = "L67" ->
            IF L.data = None THEN Raise(t, fr, L, "AttributeError")
            ELSE LET v == _validate_data(L.data)
                 IN IF v.ok THEN Goto(fr, [L EXCEPT !.data = v.df], "L68")
                    ELSE Raise(t, fr, [L EXCEPT !.data = v.inplace], "DataLoadError")
      [] fr.pt = "L68" -> Call(fr, [L EXCEPT !.last_loaded = clk], "L165", "L77")
      [] fr.pt = "L73" -> Goto(fr, [L EXCEPT !.data = Copy(_get_sample_data)], "L74")
      [] fr.pt = "L74" -> Call(fr, [L EXCEPT !.last_loaded = clk], "L165", "L77")
      [] fr.pt = "L77" ->
            IF L.data = None THEN Raise(t, fr, L, "AttributeError")
            ELSE Return(fr, [L EXCEPT !.lock = NoThread], Copy(L.data))
      \* get_species_data
      [] fr.pt = "L100" -> IF L.data = None THEN Call(fr, L, "L58", "L104") ELSE Goto(fr, L, "L104")
      [] fr.pt = "L104" ->
            IF Lower(fr.species) \notin SpeciesEnum THEN Call(fr, L, "L128", "L108")
            ELSE Goto(fr, L, "L113")
      [] fr.pt = "L108" -> Raise(t, fr, L, "DataNotFoundError")
      [] fr.pt = "L113" ->
            IF SubscriptError(L.data, "species") # ""
            THEN Raise(t, fr, L, SubscriptError(L.data, "species"))
            ELSE LET filtered == FilterSpecies(L.data, Lower(fr.species))
                 IN IF filtered.rows = <<>> THEN Goto(fr, L, "L117")
                    ELSE Return(fr, L, Copy(filtered))
      [] fr.pt = "L117" ->
            IF SubscriptError(L.data, "species") # ""
            THEN Raise(t, fr, L, SubscriptError(L.data, "species"))
            ELSE LET filtered == FilterSpeciesLower(L.data, fr.species)
                 IN IF filtered.rows = <<>> THEN Raise(t, fr, L, "DataNotFoundError")
                    ELSE Return(fr, L, Copy(filtered))
      \* get_all_species
      [] fr.pt = "L128" -> IF L.data = None THEN Call(fr, L, "L58", "L131") ELSE Goto(fr, L, "L131")
      [] fr.pt = "L131" ->
            IF SubscriptError(L.data, "species") # ""
            THEN Raise(t, fr, L, SubscriptError(L.data, "species"))
            ELSE Return(fr, L, [list |-> Sorted(UniqueSpecies(L.data))])
      \* get_species_count
      [] fr.pt = "L135" -> IF L.data = None THEN Call(fr, L, "L58", "L138") ELSE Goto(fr, L, "L138")
      [] fr.pt = "L138" ->
            IF SubscriptError(L.data, "species") # ""
            THEN Raise(t, fr, L, SubscriptError(L.data, "species"))
            ELSE Return(fr, L, [dict |-> ValueCounts(L.data)])
      \* get_summary_statistics
      [] fr.pt = "L142" -> IF L.data = None THEN Call(fr, L, "L58", "L145") ELSE Goto(fr, L, "L145")
      [] fr.pt = "L145" ->
            IF L.data_stats # None THEN Return(fr, L, L.data_stats) ELSE Goto(fr, L, "L165")
      \* _calculate_stats
      [] fr.pt = "L165" ->
            IF L.data = None THEN Return(fr, L, [dict |-> <<>>]) ELSE Goto(fr, L, "L169")
      [] fr.pt = "L169" ->
            IF L.data = None THEN Raise(t, fr, L, "TypeError")
            ELSE Call([fr EXCEPT !.total = Len(L.data.rows)], L, "L135", "L175")
      [] fr.pt = "L175" ->
            IF L.data = None \/ ~is_numeric_dtype(L.data) THEN Raise(t, fr, L, "TypeError")
            ELSE LET summary == Summary(fr.total, fr.rv.dict, L.data)
                 IN Return(fr, [L EXCEPT !.data_stats = summary], summary)
      \* admin.py clear_cache
      [] fr.pt = "A112" -> Goto(fr, [L EXCEPT !.data = None], "A113")
      [] fr.pt = "A113" -> Return(fr, [L EXCEPT !.last_loaded = NoTime], [message |-> "Cache cleared successfully"])

RECURSIVE Run(_, _, _, _, _)
\* thread t runs alone until its method finishes (or waits for the lock forever)
Run(t, fr, L, src, clk) ==
    IF ~CanStep(t, fr, L) THEN [fr |-> fr, L |-> L]
    ELSE LET s == Step(t, fr, L, src, clk) IN Run(t, s.fr, s.L, src, clk)

\* a whole method call by a caller that is not interleaved with any other
CallLoader(L, meth, species, force, src, clk) ==
    Run("main", CallFrame(meth, species, force), L, src, clk)

----------------------------------------------------------------------------
(* auth.py: the user table *)

\* hash_password / verify_password (passlib bcrypt): the hash verifies exactly
\* the password it was made from
hash_password(password) == [hashed |-> password]

User(id, email, password, access_level) ==
    [id |-> id, email |-> email, password |-> hash_password(password),
     access_level |-> access_level, is_active |-> TRUE]

\* users_db as auth.py defines it (lines 26-54), keyed by email
InitialUsers ==
    [e \in {"setosa@example.com", "virginica@example.com", "admin@example.com"} |->
        CASE e = "setosa@example.com" -> User(1, e, "password123", "setosa")
          [] e = "virginica@example.com" -> User(2, e, "password123", "virginica")
          [] e = "admin@example.com" -> User(3, e, "admin123", "all")]

----------------------------------------------------------------------------
(* The file at settings.data_path *)

\* the rows a CSV file may hold: a clean row, a prefixed mixed-case label, a
\* label outside the enumeration, a missing cell, an unparsable cell
RowKinds ==
    {[species |-> "setosa", sepal_length |-> 51],
     [species |-> "Iris-Virginica", sepal_length |-> 63],
     [species |-> "tulip", sepal_length |-> 51],
     [species |-> "versicolor", sepal_length |-> NaN],
     [species |-> "SETOSA", sepal_length |-> -2]}

\* the sequences over S of length at most n
SeqsUpTo(S, n) == UNION {[1..k -> S] : k \in 0..n}

CsvFile(columns, rows) ==
    [exists |-> TRUE, empty |-> FALSE,
     df |-> [columns |-> columns,
             dtype |-> IF \E i \in DOMAIN rows : rows[i].sepal_length \in TextCells
                       THEN "object" ELSE "float64",
             rows |-> rows]]

\* no file at data_path
AbsentFile == [exists |-> FALSE, empty |-> FALSE, df |-> None]

\* a file without header and rows (pandas.errors.EmptyDataError)
EmptyFile == [exists |-> TRUE, empty |-> TRUE, df |-> None]

\* a file without the species column
NoSpeciesFile ==
    CsvFile(required_cols \ {"species"}, <<[species |-> "", sepal_length |-> 51]>>)

\* the files of at most n rows
SourceFiles(n) ==
    {AbsentFile, EmptyFile, NoSpeciesFile}
        \cup {CsvFile(required_cols, rows) : rows \in SeqsUpTo(RowKinds, n)}

----------------------------------------------------------------------------
(* Specification SpecLoader: one caller at a time (the handlers are         *)
(* coroutines on one event loop and never await inside the loader).         *)

MainThread == "main"
Threads == {"t1", "t2"}

\* the values of get_species_data's argument
QuerySpecies == {"setosa", "virginica", "Setosa", "tulip"}

InitCommon ==
    /\ loader = NewLoader
    /\ now = 0
    /\ thr = [t \in {MainThread} \cup Threads |-> IdleFrame]
    /\ users_db = InitialUsers
    /\ next_user_id = 4
    /\ _loader = 0
    /\ instances = <<>>
    /\ started = FALSE
    /\ pair = None
    /\ presented = None
    /\ outcome = None
    /\ held = [tokens |-> {}, logged_out |-> {}]
    /\ request = None
    /\ response = None
    /\ trace = <<>>

InitLoader ==
    /\ InitCommon
    /\ \E f \in SourceFiles(MaxRows) : source = [file |-> f, writes |-> 0]

\* the method call of the main thread, run to its end
MainCall(meth, species, force) ==
    LET r == CallLoader(loader, meth, species, force, source.file, now)
    IN /\ loader' = r.L
       /\ thr' = [thr EXCEPT ![MainThread] = r.fr]
       \* the clock moves on after it has been read
       /\ now' = IF r.L.last_loaded = now THEN now + 1 ELSE now
       /\ UNCHANGED <<source, userVars, processVars, tokenVars, routeVars>>

\* loader.load_data(force_reload)
LoadData(force) == now < MaxLoadTime /\ MainCall("load_data", "", force)

\* loader.get_species_data(species)
GetSpeciesData(species) == now < MaxLoadTime /\ MainCall("get_species_data", species, FALSE)

\* loader.get_all_species()
GetAllSpecies == now < MaxLoadTime /\ MainCall("get_all_species", "", FALSE)

\* loader.get_species_count()
GetSpeciesCount == now < MaxLoadTime /\ MainCall("get_species_count", "", FALSE)

\* loader.get_summary_statistics()
GetSummaryStatistics == now < MaxLoadTime /\ MainCall("get_summary_statistics", "", FALSE)

\* DELETE /admin/clear-cache
ClearCache == MainCall("clear_cache", "", FALSE)

\* the file at data_path is replaced
WriteSource(f) ==
    /\ source.writes < MaxWrites
    /\ f # source.file
    /\ source' = [file |-> f, writes |-> source.writes + 1]
    /\ UNCHANGED <<loader, now, thr, userVars, processVars, tokenVars, routeVars>>

NextLoader ==
    \/ \E force \in BOOLEAN : LoadData(force)
    \/ \E s \in QuerySpecies : GetSpeciesData(s)
    \/ GetAllSpecies
    \/ GetSpeciesCount
    \/ GetSummaryStatistics
    \/ ClearCache
    \/ \E f \in SourceFiles(MaxRewriteRows) : WriteSource(f)

SpecLoader == InitLoader /\ [][NextLoader]_vars

----------------------------------------------------------------------------
(* Claims about the dataset cache, one caller at a time (SpecLoader) *)

\* a frame that passed validation: the required columns, labels inside the
\* enumeration, numeric cells without gaps
IsValidated(df) ==
    /\ df # None
    /\ required_cols \subseteq df.columns
    /\ \A i \in DOMAIN df.rows :
          /\ df.rows[i].species \in SpeciesEnum
          /\ df.rows[i].sepal_length \notin {NaN} \cup TextCells

\* the cache holds a snapshot a successful load published
HoldsSnapshot(L) ==
    /\ IsValidated(L.data)
    /\ L.data.rows # <<>>
    /\ L.data_stats = Summary(Len(L.data.rows), ValueCounts(L.data), L.data)
    /\ L.last_loaded # NoTime

\* the main thread has just come back from load_data(force_reload=True) with an error
FailedReload ==
    /\ thr[MainThread].meth = "load_data"
    /\ thr[MainThread].force
    /\ thr[MainThread].res.kind = "exc"

\* what a call of meth would return now
Following(meth, species) == CallLoader(loader, meth, species, FALSE, source.file, now).fr.res

\* C1: when load_data(force_reload=True) fails on a cache that holds a valid
\* snapshot, the call raises DataLoadError, a following load_data() returns
\* exactly the records held before, and get_species_data / get_all_species
\* succeed on them as they did before.
C1_FailedReloadKeepsSnapshot ==
    [][(FailedReload' /\ HoldsSnapshot(loader)) =>
          /\ thr'[MainThread].res.exc = "DataLoadError"
          /\ Following("load_data", "")' = [kind |-> "ok", exc |-> "", val |-> loader.data]
          /\ Following("get_all_species", "")' = Following("get_all_species", "")
          /\ \A s \in SpeciesEnum :
                Following("get_species_data", s)' = Following("get_species_data", s)]_vars

\* C3: the statistics bundle and the load timestamp belong to the cached
\* snapshot: total_records and the per-species counts are those of the cached
\* data, and data, statistics and timestamp are present or absent together.
C3_StatsMatchSnapshot ==
    /\ (loader.data # None /\ loader.data_stats # None) =>
          /\ loader.data_stats.total_records = Len(loader.data.rows)
          /\ loader.data_stats.species_distribution = ValueCounts(loader.data)
    /\ (loader.data = None) = (loader.data_stats = None)
    /\ (loader.data = None) = (loader.last_loaded = NoTime)

----------------------------------------------------------------------------
(* Specification SpecThreads: two threads call the loader; every program    *)
(* point is a step, the lock at line 58 is the only synchronisation.  The   *)
(* file at data_path is any file and stays as it is.                        *)

InitThreads ==
    /\ InitCommon
    /\ \E f \in SourceFiles(MaxRowsThreads) : source = [file |-> f, writes |-> 0]

\* thread t calls a method of the loader
Begin(t, meth, species, force) ==
    /\ thr[t].pt = "done"
    /\ now < MaxLoadTime
    /\ thr' = [thr EXCEPT ![t] = CallFrame(meth, species, force)]
    /\ UNCHANGED <<loader, source, now, userVars, processVars, tokenVars, routeVars>>

BeginLoadData(t, force) == Begin(t, "load_data", "", force)

BeginGetSpeciesData(t, species) == Begin(t, "get_species_data", species, FALSE)

BeginGetAllSpecies(t) == Begin(t, "get_all_species", "", FALSE)

BeginGetSpeciesCount(t) == Begin(t, "get_species_count", "", FALSE)

BeginGetSummaryStatistics(t) == Begin(t, "get_summary_statistics", "", FALSE)

BeginClearCache(t) == Begin(t, "clear_cache", "", FALSE)

\* thread t executes the program point it is at
ThreadStep(t) ==
    /\ CanStep(t, thr[t], loader)
    /\ LET s == Step(t, thr[t], loader, source.file, now)
       IN /\ thr' = [thr EXCEPT ![t] = s.fr]
          /\ loader' = s.L
    /\ now' = IF thr[t].pt \in {"L68", "L74"} THEN now + 1 ELSE now
    /\ UNCHANGED <<source, userVars, processVars, tokenVars, routeVars>>

\* the values of get_species_data's argument in the two-thread specification
QuerySpeciesThreads == {"setosa", "tulip"}

NextThreads ==
    \/ \E t \in Threads, force \in BOOLEAN : BeginLoadData(t, force)
    \/ \E t \in Threads, s \in QuerySpeciesThreads : BeginGetSpeciesData(t, s)
    \/ \E t \in Threads : BeginGetAllSpecies(t)
    \/ \E t \in Threads : BeginGetSpeciesCount(t)
    \/ \E t \in Threads : BeginGetSummaryStatistics(t)
    \/ \E t \in Threads : BeginClearCache(t)
    \/ \E t \in Threads : ThreadStep(t)

SpecThreads == InitThreads /\ [][NextThreads]_vars

\* thread t is at a line that filters or enumerates self._data
AtRead(t) == thr[t].pt \in {"L113", "L117", "L131", "L138"}

\* C2: while one thread runs a load or forced reload (it holds the lock), the
\* cached data another thread is about to read has passed validation: the
\* required columns are present and the labels are normalised and inside the
\* enumeration.
C2_NoHalfBuiltSnapshot ==
    \A u \in Threads, t \in Threads :
        (loader.lock = u /\ t # u /\ AtRead(t)) =>
            (loader.data = None \/ IsValidated(loader.data))

----------------------------------------------------------------------------
(* core/security.py: the token service.  Time is in minutes.  A token is    *)
(* what jwt.encode made: whether it parses, the key it was signed with and  *)
(* its payload.                                                             *)

\* settings.jwt_secret_key
secret_key == "your-secret-key-here-change-in-production"

\* settings.jwt_access_token_expire_minutes
jwt_access_token_expire_minutes == 30

\* settings.jwt_refresh_token_expire_days
jwt_refresh_token_expire_days == 7

\* SecurityManager.access_token_expire, in minutes
access_token_expire == jwt_access_token_expire_minutes

\* SecurityManager.refresh_token_expire, in minutes
refresh_token_expire == jwt_refresh_token_expire_days * 24 * 60

\* a claim the payload does not have (payload.get returns None)
NoClaim == "<absent>"
\* a payload without exp
NoExp == -1

\* str(user_id)
StrOf(n) ==
    CASE n = 1 -> "1" [] n = 2 -> "2" [] n = 3 -> "3" [] n = 4 -> "4" [] n = 5 -> "5"

\* the strings int() accepts
IntStrings == {"1", "2", "3", "4", "5"}

\* int(user_id)
IntOf(s) ==
    CASE s = "1" -> 1 [] s = "2" -> 2 [] s = "3" -> 3 [] s = "4" -> 4 [] s = "5" -> 5

\* jwt.encode(to_encode, key)
jwt_encode(payload, key) == [wellformed |-> TRUE, key |-> key, payload |-> payload]

HTTPException(status, detail) ==
    [ok |-> FALSE, exc |-> "HTTPException", status |-> status, detail |-> detail]

\* SecurityManager.create_access_token
create_access_token(data, clk) ==
    jwt_encode([sub |-> data.sub, email |-> data.email, access_level |-> data.access_level,
                exp |-> clk + access_token_expire, type |-> "access"], secret_key)

\* SecurityManager.create_refresh_token
create_refresh_token(data, clk) ==
    jwt_encode([sub |-> data.sub, email |-> data.email, access_level |-> data.access_level,
                exp |-> clk + refresh_token_expire, type |-> "refresh"], secret_key)

\* SecurityManager.decode_token.  jwt.decode (python-jose) raises JWTError
\* for a token that does not parse, for a signature made with another key
\* and, when the payload has exp, for exp < now (_validate_exp, no leeway)
decode_token(token, clk) ==
    IF \/ ~token.wellformed
       \/ token.key # secret_key
       \/ (token.payload.exp # NoExp /\ token.payload.exp < clk)
    THEN HTTPException(401, "Could not validate credentials")
    ELSE [ok |-> TRUE, payload |-> token.payload]

\* all([user_id, email, access_level]): None and the empty string are falsy
Falsy(v) == v \in {NoClaim, ""}

\* verify_token without the check of the type claim (lines 72-77)
verify_token_any_kind(token, token_type, clk) ==
    LET decoded == decode_token(token, clk)
        payload == decoded.payload
    IN IF ~decoded.ok THEN decoded
       ELSE IF Falsy(payload.sub) \/ Falsy(payload.email) \/ Falsy(payload.access_level)
       THEN HTTPException(401, "Invalid token payload")
       ELSE IF payload.sub \notin IntStrings
       THEN [ok |-> FALSE, exc |-> "ValueError", status |-> 0, detail |-> ""]
       ELSE [ok |-> TRUE, exc |-> "", status |-> 200, detail |-> "",
             user |-> [user_id |-> IntOf(payload.sub), email |-> payload.email,
                       access_level |-> payload.access_level]]

\* verify_token with all([user_id, email]) at line 84
verify_token_two_claims(token, token_type, clk) ==
    LET decoded == decode_token(token, clk)
        payload == decoded.payload
    IN IF ~decoded.ok THEN decoded
       ELSE IF payload.type # token_type
       THEN HTTPException(401, IF token_type = "access"
                               THEN "Invalid token type. Expected access"
                               ELSE "Invalid token type. Expected refresh")
       ELSE IF Falsy(payload.sub) \/ Falsy(payload.email)
       THEN HTTPException(401, "Invalid token payload")
       ELSE IF payload.sub \notin IntStrings
       THEN [ok |-> FALSE, exc |-> "ValueError", status |-> 0, detail |-> ""]
       ELSE [ok |-> TRUE, exc |-> "", status |-> 200, detail |-> "",
             user |-> [user_id |-> IntOf(payload.sub), email |-> payload.email,
                       access_level |-> payload.access_level]]

\* SecurityManager.verify_token
verify_token(token, token_type, clk) ==
    LET decoded == decode_token(token, clk)
        payload == decoded.payload
    IN IF ~decoded.ok THEN decoded
       ELSE IF payload.type # token_type
       THEN HTTPException(401, IF token_type = "access"
                               THEN "Invalid token type. Expected access"
                               ELSE "Invalid token type. Expected refresh")
       ELSE IF Falsy(payload.sub) \/ Falsy(payload.email) \/ Falsy(payload.access_level)
       THEN HTTPException(401, "Invalid token payload")
       ELSE IF payload.sub \notin IntStrings
       THEN [ok |-> FALSE, exc |-> "ValueError", status |-> 0, detail |-> ""]
       ELSE [ok |-> TRUE, exc |-> "", status |-> 200, detail |-> "",
             user |-> [user_id |-> IntOf(payload.sub), email |-> payload.email,
                       access_level |-> payload.access_level]]

\* create_tokens that issues every pair for settings.default_user_access
create_tokens_default_access(user_id, email, access_level, clk) ==
    LET token_data == [sub |-> StrOf(user_id), email |-> email, access_level |-> "setosa"]
    IN [access_token |-> create_access_token(token_data, clk),
        refresh_token |-> create_refresh_token(token_data, clk),
        token_type |-> "bearer",
        expires_in |-> access_token_expire * 60]

\* SecurityManager.create_tokens
create_tokens(user_id, email, access_level, clk) ==
    LET token_data == [sub |-> StrOf(user_id), email |-> email, access_level |-> access_level]
    IN [access_token |-> create_access_token(token_data, clk),
        refresh_token |-> create_refresh_token(token_data, clk),
        token_type |-> "bearer",
        expires_in |-> access_token_expire * 60]

\* verify_access_token
verify_access_token(token, clk) == verify_token(token, "access", clk)

\* verify_refresh_token
verify_refresh_token(token, clk) == verify_token(token, "refresh", clk)

\* get_current_user with a server-side list of the tokens that were logged out
get_current_user_revoking(token, clk) ==
    LET user == verify_access_token(token, clk)
    IN IF user.ok /\ token \notin held.logged_out THEN user
       ELSE HTTPException(401, "Could not validate credentials")

\* dependencies.py get_current_user: every failure becomes the same 401
get_current_user(token, clk) ==
    LET user == verify_access_token(token, clk)
    IN IF user.ok THEN user ELSE HTTPException(401, "Could not validate credentials")

\* the users of db whose id is user_id (auth.py lines 129-133)
UsersWithId(db, user_id) == {e \in DOMAIN db : db[e].id = user_id}

\* refresh_token that issues the new pair from the claims of the token
refresh_token_from_claims(db, token, clk) ==
    LET user_info == verify_refresh_token(token, clk)
    IN IF ~user_info.ok
       THEN IF user_info.exc = "HTTPException" THEN user_info
            ELSE HTTPException(401, "Invalid refresh token")
       ELSE [ok |-> TRUE, exc |-> "", status |-> 200, detail |-> "",
             tokens |-> create_tokens(user_info.user.user_id, user_info.user.email,
                                      user_info.user.access_level, clk)]

\* auth.py refresh_token
refresh_token(db, token, clk) ==
    LET user_info == verify_refresh_token(token, clk)
    IN IF ~user_info.ok
       THEN IF user_info.exc = "HTTPException" THEN user_info
            ELSE HTTPException(401, "Invalid refresh token")
       ELSE IF UsersWithId(db, user_info.user.user_id) = {}
       THEN HTTPException(404, "User not found")
       ELSE LET user == db[CHOOSE e \in UsersWithId(db, user_info.user.user_id) : TRUE]
            IN IF ~user.is_active
               THEN HTTPException(403, "User account is inactive")
               ELSE [ok |-> TRUE, exc |-> "", status |-> 200, detail |-> "",
                     tokens |-> create_tokens(user.id, user.email, user.access_level, clk)]

----------------------------------------------------------------------------
(* Specification SpecToken: pairs are issued, time passes, tokens are       *)
(* presented to the verifiers, to get_current_user and to /auth/refresh.    *)

\* tokens nobody issued in this behaviour: any payload, signed with the
\* server's key or with another one
ForgedTokens ==
    {jwt_encode(p, k) :
        p \in [sub : {NoClaim, "1", "abc"},
               email : {NoClaim, "setosa@example.com"},
               access_level : {NoClaim, "", "setosa"},
               exp : {NoExp, 0, MaxTime},
               type : {NoClaim, "access", "refresh"}],
        k \in {secret_key, "another-key"}}
    \cup {[wellformed |-> FALSE, key |-> "", payload |-> None]}

\* the tokens a caller can present
Presentable ==
    ForgedTokens \cup
        (IF pair = None THEN {} ELSE {pair.tokens.access_token, pair.tokens.refresh_token})

InitToken ==
    /\ InitCommon
    /\ source = [file |-> AbsentFile, writes |-> 0]

\* a minute passes (verification is synchronous: no call is in progress)
Tick ==
    /\ now < MaxTime
    /\ presented = None
    /\ now' = now + 1
    /\ UNCHANGED <<loaderVars, userVars, processVars, tokenVars, routeVars>>

\* create_tokens for a user of the table (what login does on success)
CreateTokens(e) ==
    /\ now <= MaxIssueTime
    /\ presented = None
    /\ pair' = [tokens |-> create_tokens(users_db[e].id, users_db[e].email,
                                         users_db[e].access_level, now),
                user_id |-> users_db[e].id, email |-> users_db[e].email,
                access_level |-> users_db[e].access_level, issued_at |-> now]
    /\ UNCHANGED <<loaderVars, now, userVars, processVars, presented, outcome, held, routeVars>>

\* a call by(token) at the current time
Present(by, token, result) ==
    /\ presented = None
    /\ presented' = [by |-> by, token |-> token, at |-> now]
    /\ outcome' = result
    /\ UNCHANGED <<loaderVars, now, userVars, processVars, pair, held, routeVars>>

VerifyAccessToken(token) ==
    Present("verify_access_token", token, verify_access_token(token, now))

VerifyRefreshToken(token) ==
    Present("verify_refresh_token", token, verify_refresh_token(token, now))

\* a protected request: Depends(get_current_user)
GetCurrentUser(token) ==
    Present("get_current_user", token, get_current_user(token, now))

\* POST /auth/refresh
RefreshToken(token) ==
    Present("refresh_token", token, refresh_token(users_db, token, now))

\* the call in progress returns to its caller
Returned ==
    /\ presented # None
    /\ presented' = None
    /\ outcome' = None
    /\ UNCHANGED <<loaderVars, now, userVars, processVars, pair, held, routeVars>>

NextToken ==
    \/ Tick
    \/ Returned
    \/ presented = None /\ \E e \in DOMAIN users_db : CreateTokens(e)
    \/ presented = None /\ \E token \in Presentable : VerifyAccessToken(token)
    \/ presented = None /\ \E token \in Presentable : VerifyRefreshToken(token)
    \/ presented = None /\ \E token \in Presentable : GetCurrentUser(token)
    \/ presented = None /\ \E token \in Presentable : RefreshToken(token)

SpecToken == InitToken /\ [][NextToken]_vars

----------------------------------------------------------------------------
(* Claims about the token service (SpecToken) *)

\* the call in progress presents the access (refresh) token of the pair issued last
PresentsAccessToken == presented # None /\ pair # None /\ presented.token = pair.tokens.access_token
PresentsRefreshToken == presented # None /\ pair # None /\ presented.token = pair.tokens.refresh_token

\* the token kind the callee of the call in progress expects
ExpectedKind ==
    IF presented.by \in {"verify_access_token", "get_current_user"} THEN "access" ELSE "refresh"

\* C4: a token whose type claim is 'refresh' is rejected by verify_access_token
\* and never authenticates a request (get_current_user); a token whose type
\* claim is 'access' is rejected by verify_refresh_token and obtains no pair
\* from the refresh endpoint.
C4_KindNeverCrossed ==
    (presented # None /\ presented.token.wellformed) =>
        /\ (ExpectedKind = "access" /\ presented.token.payload.type = "refresh") => ~outcome.ok
        /\ (ExpectedKind = "refresh" /\ presented.token.payload.type = "access") => ~outcome.ok

\* an unexpired refresh token of the pair was presented as an access token
C4_Witness ==
    /\ PresentsRefreshToken
    /\ presented.by = "get_current_user"
    /\ ~outcome.ok
    /\ verify_refresh_token(presented.token, presented.at).ok

\* C5: an access token issued at t with lifetime L verifies at every time
\* before t+L and is rejected at every time from t+L on.
C5_StrictExpiry ==
    (PresentsAccessToken /\ presented.by = "verify_access_token") =>
        (outcome.ok <=> presented.at < pair.issued_at + access_token_expire)

\* C6: verify_token rejects a token that lacks sub, email or access_level,
\* and a token it accepts is not past its expiry, has the expected kind and
\* carries all three identity claims.
C6_IdentityClaimsRequired ==
    (/\ presented # None
     /\ presented.by \in {"verify_access_token", "verify_refresh_token"}
     /\ presented.token.wellformed) =>
        LET p == presented.token.payload
            lacking == NoClaim \in {p.sub, p.email, p.access_level}
        IN /\ lacking => ~outcome.ok
           /\ outcome.ok =>
                /\ ~(p.exp # NoExp /\ presented.at > p.exp)
                /\ p.type = ExpectedKind
                /\ ~lacking

\* a token with the server's signature, a later expiry and the expected kind,
\* but without access_level, was rejected
C6_Witness ==
    /\ presented # None
    /\ presented.by = "verify_access_token"
    /\ presented.token.wellformed
    /\ presented.token.key = secret_key
    /\ presented.token.payload.exp > presented.at
    /\ presented.token.payload.type = "access"
    /\ presented.token.payload.sub = "1"
    /\ presented.token.payload.email # NoClaim
    /\ presented.token.payload.access_level = NoClaim
    /\ ~outcome.ok

\* C7: before its expiry, the access token of an issued pair verifies to the
\* id, email and access level the pair was issued for, and so does the
\* refresh token.
C7_RoundTrip ==
    LET issued_for == [user_id |-> pair.user_id, email |-> pair.email,
                       access_level |-> pair.access_level]
    IN /\ (/\ PresentsAccessToken
           /\ presented.by = "verify_access_token"
           /\ presented.at < pair.issued_at + access_token_expire) =>
                (outcome.ok /\ outcome.user = issued_for)
       /\ (/\ PresentsRefreshToken
           /\ presented.by = "verify_refresh_token"
           /\ presented.at < pair.issued_at + refresh_token_expire) =>
                (outcome.ok /\ outcome.user = issued_for)

\* the admin's access token was verified some minutes after it was issued
C7_Witness ==
    /\ PresentsAccessToken
    /\ presented.by = "verify_access_token"
    /\ pair.access_level = "all"
    /\ presented.at > pair.issued_at
    /\ outcome.ok

----------------------------------------------------------------------------
(* IrisDataProcessor (data/processor.py).  An operator returns [ok, exc,   *)
(* val]: whether the method returned, what it raised, what it returned.    *)

Returns(v) == [ok |-> TRUE, exc |-> "", val |-> v]
Raises(e) == [ok |-> FALSE, exc |-> e, val |-> None]

\* IrisDataProcessor.process_species_data: float(row[col]) fails on a cell
\* that does not parse; IrisDataPoint refuses a NaN (ge=0) and
\* IrisDataResponse an empty data array (schemas.py 77-95)
process_species_data(df, species) ==
    IF \E i \in DOMAIN df.rows : df.rows[i].sepal_length \in TextCells
    THEN Raises("ValueError")
    ELSE IF df.rows = <<>> \/ HasNaN(df) \/ species \notin SpeciesEnum
    THEN Raises("ValidationError")
    ELSE Returns([species |-> species,
                  data |-> [i \in DOMAIN df.rows |->
                               [sepal_length |-> df.rows[i].sepal_length, species |-> species]],
                  count |-> Len(df.rows),
                  min_values |-> ColStats(df.rows).min,
                  max_values |-> ColStats(df.rows).max])

\* IrisDataProcessor.calculate_statistics: mean and std of a column of
\* dtype object raise; both are functions of the cells ColStats reads
calculate_statistics(df, species) ==
    IF ~is_numeric_dtype(df) THEN Raises("TypeError")
    ELSE Returns([species |-> species, count |-> Len(df.rows),
                  sepal_length |-> ColStats(df.rows)])

\* IrisDataProcessor.process_summary_data; the statistics list is kept as a
\* function of the species label
process_summary_data(df, last_updated) ==
    IF SubscriptError(df, "species") # "" THEN Raises(SubscriptError(df, "species"))
    ELSE IF df.rows # <<>> /\ ~is_numeric_dtype(df) THEN Raises("TypeError")
    ELSE Returns([total_records |-> Len(df.rows),
                  species_count |-> ValueCounts(df),
                  statistics |-> [sp \in UniqueSpecies(df) |->
                        calculate_statistics(FilterSpecies(df, sp), sp).val],
                  last_updated |-> last_updated])

\* IrisDataProcessor.aggregate_by_species
aggregate_by_species(df) ==
    IF SubscriptError(df, "species") # "" THEN Raises(SubscriptError(df, "species"))
    ELSE IF df.rows # <<>> /\ ~is_numeric_dtype(df) THEN Raises("TypeError")
    ELSE Returns([sp \in UniqueSpecies(df) |->
                    [sepal_length |-> ColStats(FilterSpecies(df, sp).rows)]])

----------------------------------------------------------------------------
(* The data and admin endpoints.  A handler returns the response (status,  *)
(* detail, body), the loader as it leaves it and the calls it made, in     *)
(* order: the access decisions and the calls of the loader.                *)

\* security.check_user_access
check_user_access(user_access, required_species) ==
    IF user_access = "all" THEN TRUE
    ELSE IF user_access = required_species THEN TRUE
    ELSE FALSE

\* an access decision, as an entry of the list of calls
Decided(user_access, species) ==
    [ev |-> "check_user_access", access |-> user_access, species |-> species,
     result |-> check_user_access(user_access, species)]

\* a call of the loader, as an entry of the list of calls
Queried(meth, species) ==
    [ev |-> meth, access |-> "", species |-> species, result |-> FALSE]

Respond(status, detail, body, L, calls) ==
    [status |-> status, detail |-> detail, body |-> body, L |-> L, calls |-> calls]

\* Optional[int] = Query(None): the parameter is not given
NoParam == -1

\* df.iloc[offset:] and df.iloc[:limit]
Paginate(df, limit, offset) ==
    LET skipped == IF offset = NoParam THEN df.rows
                   ELSE SubSeq(df.rows, offset + 1, Len(df.rows))
        taken == IF limit = NoParam \/ limit >= Len(skipped) THEN skipped
                 ELSE SubSeq(skipped, 1, limit)
    IN [df EXCEPT !.rows = taken]

\* the end of get_data_summary (lines 48-56): summary is what
\* process_summary_data did
Summarised(current_user, summary, accessible_species, L, calls) ==
    IF ~summary.ok THEN Respond(500, "Failed to retrieve data summary", None, L, calls)
    ELSE Respond(200, "",
             [summary |-> summary.val,
              accessible_species |-> accessible_species,
              user_access_level |-> current_user.access_level],
             L, calls)

\* get_data_summary for an admin from line 45 on: all is what
\* loader.get_all_species() did
SummaryOfAll(current_user, loaded, all, calls) ==
    IF all.fr.res.kind # "ok"
    THEN Respond(500, "Failed to retrieve data summary", None, all.L, calls)
    ELSE Summarised(current_user,
                    process_summary_data(loaded.fr.res.val, all.L.last_loaded),
                    all.fr.res.val.list, all.L, calls)

\* lines 38-56 with the summary computed on the whole frame
SummaryOfLoadedUnfiltered(current_user, loaded, src, clk) ==
    IF loaded.fr.res.kind # "ok"
    THEN Respond(500, "Failed to retrieve data summary", None, loaded.L,
                 <<Queried("load_data", "")>>)
    ELSE Summarised(current_user,
                    process_summary_data(loaded.fr.res.val, loaded.L.last_loaded),
                    <<current_user.access_level>>, loaded.L, <<Queried("load_data", "")>>)

\* get_data_summary from line 38 on: loaded is what loader.load_data() did
SummaryOfLoaded(current_user, loaded, src, clk) ==
    IF loaded.fr.res.kind # "ok"
    THEN Respond(500, "Failed to retrieve data summary", None, loaded.L,
                 <<Queried("load_data", "")>>)
    ELSE IF current_user.access_level # "all"
    THEN IF SubscriptError(loaded.fr.res.val, "species") # ""
         THEN Respond(500, "Failed to retrieve data summary", None, loaded.L,
                      <<Queried("load_data", "")>>)
         ELSE Summarised(current_user,
                         process_summary_data(
                             FilterSpecies(loaded.fr.res.val, current_user.access_level),
                             loaded.L.last_loaded),
                         <<current_user.access_level>>, loaded.L,
                         <<Queried("load_data", "")>>)
    ELSE SummaryOfAll(current_user, loaded,
                      CallLoader(loaded.L, "get_all_species", "", FALSE, src, clk),
                      <<Queried("load_data", ""), Queried("get_all_species", "")>>)

\* GET /data/ that does not filter the frame by the caller's access level
get_data_summary_unfiltered(current_user, L, src, clk) ==
    SummaryOfLoadedUnfiltered(current_user,
                              CallLoader(L, "load_data", "", FALSE, src, clk), src, clk)

\* GET /data/ (data.py get_data_summary)
get_data_summary(current_user, L, src, clk) ==
    SummaryOfLoaded(current_user, CallLoader(L, "load_data", "", FALSE, src, clk), src, clk)

\* list_accessible_species for an admin: all is what loader.get_all_species()
\* did; its exception leaves the handler and the framework answers 500
ListOfAll(all) ==
    IF all.fr.res.kind # "ok"
    THEN Respond(500, "Internal Server Error", None, all.L, <<Queried("get_all_species", "")>>)
    ELSE Respond(200, "", all.fr.res.val.list, all.L, <<Queried("get_all_species", "")>>)

\* list_accessible_species that asks the loader whatever the access level
list_accessible_species_unscoped(current_user, L, src, clk) ==
    ListOfAll(CallLoader(L, "get_all_species", "", FALSE, src, clk))

\* GET /data/species/list (data.py list_accessible_species)
list_accessible_species(current_user, L, src, clk) ==
    IF current_user.access_level = "all"
    THEN ListOfAll(CallLoader(L, "get_all_species", "", FALSE, src, clk))
    ELSE Respond(200, "", <<current_user.access_level>>, L, <<>>)

\* get_species_data from line 119 on: got is what loader.get_species_data did,
\* calls the calls made up to it
SpeciesDataBody(current_user, species, limit, offset, got, calls) ==
    IF got.fr.res.kind # "ok"
    THEN IF got.fr.res.exc = "DataNotFoundError"
         THEN Respond(404, "No data found", None, got.L, calls)
         ELSE Respond(500, "Failed to retrieve species data", None, got.L, calls)
    ELSE LET df == Paginate(got.fr.res.val, limit, offset)
             body == process_species_data(df, species)
             stats == calculate_statistics(df, species)
         IN IF ~body.ok \/ ~stats.ok
            THEN Respond(500, "Failed to retrieve species data", None, got.L, calls)
            ELSE Respond(200, "",
                     [response |-> body.val,
                      user_access_level |-> current_user.access_level,
                      pagination |-> [limit |-> limit, offset |-> offset],
                      statistics |-> stats.val],
                     got.L, calls)

\* the access decision taken after the species was served
DecideLate(current_user, species, served) ==
    IF ~check_user_access(current_user.access_level, species)
    THEN Respond(403, "You don't have access", None, served.L,
                 Append(served.calls, Decided(current_user.access_level, species)))
    ELSE [served EXCEPT !.calls = Append(@, Decided(current_user.access_level, species))]

\* GET /data/species/{species_name} that asks the loader before it decides
get_species_data_load_first(current_user, species_name, limit, offset, L, src, clk) ==
    IF Lower(species_name) \notin SpeciesEnum
    THEN Respond(400, "Invalid species", None, L, <<>>)
    ELSE DecideLate(current_user, Lower(species_name),
             SpeciesDataBody(current_user, Lower(species_name), limit, offset,
                 CallLoader(L, "get_species_data", Lower(species_name), FALSE, src, clk),
                 <<Queried("get_species_data", Lower(species_name))>>))

\* GET /data/species/{species_name} (data.py get_species_data), with the
\* default normalize=False, remove_outliers=False, include_statistics=True
get_species_data(current_user, species_name, limit, offset, L, src, clk) ==
    IF Lower(species_name) \notin SpeciesEnum
    THEN Respond(400, "Invalid species", None, L, <<>>)
    ELSE IF ~check_user_access(current_user.access_level, Lower(species_name))
    THEN Respond(403, "You don't have access", None, L,
                 <<Decided(current_user.access_level, Lower(species_name))>>)
    ELSE SpeciesDataBody(current_user, Lower(species_name), limit, offset,
             CallLoader(L, "get_species_data", Lower(species_name), FALSE, src, clk),
             <<Decided(current_user.access_level, Lower(species_name)),
               Queried("get_species_data", Lower(species_name))>>)

\* GET /data/my-data (data.py get_my_data)
get_my_data(current_user, L, src, clk) ==
    IF current_user.access_level = "all"
    THEN Respond(400, "Admin users must specify a species", None, L, <<>>)
    ELSE get_species_data(current_user, current_user.access_level, NoParam, NoParam,
                          L, src, clk)

\* get_statistics once it has its frame: got is what the loader did; only is
\* the one key kept of the aggregation (line 241), "" to keep them all
StatisticsOf(got, only, calls) ==
    LET stats == aggregate_by_species(got.fr.res.val)
    IN IF got.fr.res.kind # "ok" \/ ~stats.ok
       THEN Respond(500, "Failed to calculate statistics", None, got.L, calls)
       ELSE IF only = "" THEN Respond(200, "", stats.val, got.L, calls)
       ELSE IF only \notin DOMAIN stats.val
       THEN Respond(500, "Failed to calculate statistics", None, got.L, calls)
       ELSE Respond(200, "", [sp \in {only} |-> stats.val[only]], got.L, calls)

\* GET /data/statistics (data.py get_statistics); species "" is no filter
get_statistics(current_user, species, L, src, clk) ==
    IF species # ""
    THEN IF ~check_user_access(current_user.access_level, species)
         THEN Respond(403, "You don't have access", None, L,
                      <<Decided(current_user.access_level, species)>>)
         ELSE StatisticsOf(CallLoader(L, "get_species_data", species, FALSE, src, clk), "",
                           <<Decided(current_user.access_level, species),
                             Queried("get_species_data", species)>>)
    ELSE IF current_user.access_level = "all"
    THEN StatisticsOf(CallLoader(L, "load_data", "", FALSE, src, clk), "",
                      <<Queried("load_data", "")>>)
    ELSE StatisticsOf(CallLoader(L, "get_species_data", current_user.access_level,
                                 FALSE, src, clk),
                      current_user.access_level,
                      <<Queried("get_species_data", current_user.access_level)>>)

\* settings.api_key or "admin-secret-key" (dependencies.py line 72; config.py
\* leaves api_key None)
admin_key == "admin-secret-key"

\* require_admin_key that accepts every key that is given
require_admin_key_any_key(x_api_key) ==
    IF x_api_key = "" THEN 401 ELSE 0

\* dependencies.require_admin_key: the status it raises, 0 when it returns
require_admin_key(x_api_key) ==
    IF x_api_key = "" THEN 401
    ELSE IF x_api_key # admin_key THEN 403
    ELSE 0

\* reload_data from line 34 on: all is what loader.get_all_species() did
ReloadedAll(loaded, all) ==
    IF all.fr.res.kind # "ok"
    THEN Respond(500, "Failed to reload data", None, all.L,
                 <<Queried("load_data", ""), Queried("get_all_species", "")>>)
    ELSE Respond(200, "Data reloaded successfully",
             [rows_loaded |-> Len(loaded.fr.res.val.rows),
              species_found |-> all.fr.res.val.list],
             all.L, <<Queried("load_data", ""), Queried("get_all_species", "")>>)

\* reload_data from line 33 on: loaded is what load_data(force_reload=True) did
Reloaded(loaded, src, clk) ==
    IF loaded.fr.res.kind # "ok"
    THEN Respond(500, "Failed to reload data", None, loaded.L, <<Queried("load_data", "")>>)
    ELSE ReloadedAll(loaded, CallLoader(loaded.L, "get_all_species", "", FALSE, src, clk))

\* POST /admin/reload-data (admin.py reload_data)
reload_data(L, src, clk) ==
    Reloaded(CallLoader(L, "load_data", "", TRUE, src, clk), src, clk)

\* str.endswith('.csv') on the file names of the model
EndsWithCsv(filename) == filename \in {"iris.csv"}

\* upload_data from line 87 on: df is the frame read from the upload, loaded
\* what load_data(force_reload=True) did
Uploaded(df, loaded) ==
    IF loaded.fr.res.kind # "ok"
    THEN Respond(500, "Failed to upload data", None, loaded.L, <<Queried("load_data", "")>>)
    ELSE Respond(200, "Data uploaded and loaded successfully",
             [rows_loaded |-> Len(df.rows), species_found |-> UniqueSpecies(df)],
             loaded.L, <<Queried("load_data", "")>>)

\* whether upload_data reaches line 83 and writes the upload to data_path
Saved(filename, file) ==
    /\ EndsWithCsv(filename)
    /\ ~file.empty
    /\ required_cols \subseteq file.df.columns

\* POST /admin/upload-data (admin.py upload_data); file is the upload as
\* read_csv parses it, and to_csv followed by read_csv gives the same frame
upload_data(filename, file, L, clk) ==
    IF ~EndsWithCsv(filename)
    THEN Respond(400, "Only CSV files are supported", None, L, <<>>)
    ELSE IF file.empty
    THEN Respond(500, "Failed to upload data", None, L, <<>>)
    ELSE IF required_cols \ file.df.columns # {}
    THEN Respond(400, "Missing required columns", None, L, <<>>)
    ELSE Uploaded(file.df, CallLoader(L, "load_data", "", TRUE, file, clk))

\* DELETE /admin/clear-cache (admin.py clear_cache)
clear_cache(L, src, clk) ==
    Respond(200, "Cache cleared successfully", None,
            CallLoader(L, "clear_cache", "", FALSE, src, clk).L, <<>>)

\* GET /admin/config (admin.py get_configuration)
get_configuration(L) ==
    Respond(200, "", [data_path |-> "data/iris.csv", cache_enabled |-> TRUE], L, <<>>)

----------------------------------------------------------------------------
(* Specification SpecRoutes: the requests of the data and admin endpoints, *)
(* one handler at a time (coroutines on one event loop, no await inside a  *)
(* handler's body), each carrying the bearer token of a login.             *)

\* the values of the species path and query parameters
RouteSpecies == {"setosa", "Setosa", "virginica", "tulip"}

\* the values of limit and of offset
Limits == {NoParam, 1}
Offsets == {NoParam, 1}

\* the bearer tokens of the requests: every user's access token, and a
\* refresh token
Bearers ==
    {<<e, "access">> : e \in DOMAIN InitialUsers} \cup {<<"setosa@example.com", "refresh">>}

\* the values of the X-Admin-Key header ("" when the header is missing)
AdminKeys == {"", "wrong-key", admin_key}

InitRoutes ==
    /\ InitCommon
    /\ \E f \in SourceFiles(MaxRowsRoutes) : source = [file |-> f, writes |-> 0]

\* Depends(get_current_active_user) for the bearer token that the login of
\* the user with email e returned: its access token, or its refresh token
Authenticate(e, bearer) ==
    LET tokens == create_tokens(users_db[e].id, e, users_db[e].access_level, now)
    IN get_current_user(IF bearer = "access" THEN tokens.access_token
                        ELSE tokens.refresh_token, now)

Req(endpoint, e, bearer, species, limit, offset, key) ==
    [endpoint |-> endpoint, email |-> e, bearer |-> bearer, species |-> species,
     limit |-> limit, offset |-> offset, key |-> key, filename |-> ""]

\* the dependency refused the request: the handler does not run
Refuse(req, status, detail) ==
    /\ request' = [req EXCEPT !.caller = ""]
    /\ response' = [status |-> status, detail |-> detail, body |-> None]
    /\ trace' = <<>>
    /\ UNCHANGED <<loader, source, now, thr, userVars, processVars, tokenVars>>

\* the handler ran and returned r
Returning(req, r) ==
    /\ request' = req
    /\ response' = [status |-> r.status, detail |-> r.detail, body |-> r.body]
    /\ trace' = r.calls
    /\ loader' = r.L
    \* the clock moves on after it has been read
    /\ now' = IF r.L.last_loaded = now THEN now + 1 ELSE now
    /\ UNCHANGED <<thr, userVars, processVars, tokenVars>>

\* the handler ran and returned r, and left the file at data_path alone
Answer(req, r) == Returning(req, r) /\ UNCHANGED source

\* a request req of the data endpoints, whose dependency returned auth
\* and whose handler, when it ran, returned r
DataRequest(req, auth, r) ==
    /\ now < MaxLoadTime
    /\ IF ~auth.ok THEN Refuse(req, auth.status, auth.detail)
       ELSE Answer([req EXCEPT !.caller = auth.user.access_level], r)

\* a request req of the admin endpoints
AdminRequest(req, r) ==
    IF require_admin_key(req.key) # 0
    THEN Refuse(req, require_admin_key(req.key), "Admin API key")
    ELSE Answer(req, r)

NoCaller(req) == [caller |-> ""] @@ req

\* GET /data/
DataSummary(e, bearer) ==
    \E auth \in {Authenticate(e, bearer)} :
        DataRequest(NoCaller(Req("summary", e, bearer, "", NoParam, NoParam, "")), auth,
                    IF auth.ok THEN get_data_summary(auth.user, loader, source.file, now)
                    ELSE None)

\* GET /data/species/list
SpeciesList(e, bearer) ==
    \E auth \in {Authenticate(e, bearer)} :
        DataRequest(NoCaller(Req("species_list", e, bearer, "", NoParam, NoParam, "")), auth,
                    IF auth.ok
                    THEN list_accessible_species(auth.user, loader, source.file, now)
                    ELSE None)

\* GET /data/species/{species_name}
SpeciesData(e, bearer, species_name, limit, offset) ==
    \E auth \in {Authenticate(e, bearer)} :
        DataRequest(NoCaller(Req("species", e, bearer, species_name, limit, offset, "")), auth,
                    IF auth.ok
                    THEN get_species_data(auth.user, species_name, limit, offset,
                                          loader, source.file, now)
                    ELSE None)

\* GET /data/my-data
MyData(e, bearer) ==
    \E auth \in {Authenticate(e, bearer)} :
        DataRequest(NoCaller(Req("my_data", e, bearer, "", NoParam, NoParam, "")), auth,
                    IF auth.ok THEN get_my_data(auth.user, loader, source.file, now)
                    ELSE None)

\* GET /data/statistics
Statistics(e, bearer, species) ==
    \E auth \in {Authenticate(e, bearer)} :
        DataRequest(NoCaller(Req("statistics", e, bearer, species, NoParam, NoParam, "")), auth,
                    IF auth.ok
                    THEN get_statistics(auth.user, species, loader, source.file, now)
                    ELSE None)

\* POST /admin/reload-data
ReloadData(key) ==
    /\ now < MaxLoadTime
    /\ AdminRequest(NoCaller(Req("reload_data", "", "", "", NoParam, NoParam, key)),
                    reload_data(loader, source.file, now))

\* DELETE /admin/clear-cache
ClearCacheRoute(key) ==
    AdminRequest(NoCaller(Req("clear_cache", "", "", "", NoParam, NoParam, key)),
                 clear_cache(loader, source.file, now))

\* GET /admin/config
Configuration(key) ==
    AdminRequest(NoCaller(Req("config", "", "", "", NoParam, NoParam, key)),
                 get_configuration(loader))

\* the uploads: files with a name and some content
FileNames == {"iris.csv", "iris.txt"}
Uploads == SourceFiles(MaxRewriteRows) \ {AbsentFile}

\* POST /admin/upload-data
UploadData(key, filename, file) ==
    /\ now < MaxLoadTime
    /\ source.writes < MaxWrites
    /\ \E req \in {[NoCaller(Req("upload_data", "", "", "", NoParam, NoParam, key))
                        EXCEPT !.filename = filename]} :
          IF require_admin_key(key) # 0
          THEN Refuse(req, require_admin_key(key), "Admin API key")
          ELSE /\ Returning(req, upload_data(filename, file, loader, now))
               /\ source' = IF Saved(filename, file)
                            THEN [file |-> file, writes |-> source.writes + 1]
                            ELSE source

\* the response has been sent: the request is over
Responded ==
    /\ request # None
    /\ request' = None
    /\ response' = None
    /\ trace' = <<>>
    /\ UNCHANGED <<loader, source, now, thr, userVars, processVars, tokenVars>>

NextRoutes ==
    \/ request = None /\ \E b \in Bearers : DataSummary(b[1], b[2])
    \/ request = None /\ \E b \in Bearers : SpeciesList(b[1], b[2])
    \/ request = None /\ \E b \in Bearers, sp \in RouteSpecies, limit \in Limits,
          offset \in Offsets : SpeciesData(b[1], b[2], sp, limit, offset)
    \/ request = None /\ \E b \in Bearers : MyData(b[1], b[2])
    \/ request = None /\ \E b \in Bearers, sp \in RouteSpecies \cup {""} :
          Statistics(b[1], b[2], sp)
    \/ request = None /\ \E key \in AdminKeys : ReloadData(key)
    \/ request = None /\ \E key \in AdminKeys : ClearCacheRoute(key)
    \/ request = None /\ \E key \in AdminKeys : Configuration(key)
    \/ request = None /\ \E key \in AdminKeys, filename \in FileNames, file \in Uploads :
          UploadData(key, filename, file)
    \/ Responded

SpecRoutes == InitRoutes /\ [][NextRoutes]_vars

----------------------------------------------------------------------------
(* Claims about the data endpoints (SpecRoutes) *)

\* C8: every access decision is true when the access level is 'all' and is
\* otherwise true exactly when the access level and the requested category
\* are equal without regard to case.
C8_CaseInsensitiveDecision ==
    \A i \in DOMAIN trace :
        trace[i].ev = "check_user_access" =>
            (trace[i].result <=>
                (trace[i].access = "all" \/ Lower(trace[i].access) = Lower(trace[i].species)))

\* the access decision for the caller and category x came out true before
\* the i-th call of the request
DecidedBefore(i, x) ==
    \E j \in 1..(i - 1) :
        trace[j] = [ev |-> "check_user_access", access |-> request.caller,
                    species |-> x, result |-> TRUE]

\* the request was refused with 403 and made no call of the loader
DeniedUnserved ==
    (response # None /\ response.status = 403) =>
        \A i \in DOMAIN trace : trace[i].ev = "check_user_access"

\* C9 as stated: loader.get_species_data(X) is reached only after the access
\* decision for the caller and X returned true, and a request answered 403
\* never reaches the cache.
C9_DecisionBeforeCache ==
    /\ \A i \in DOMAIN trace :
          trace[i].ev = "get_species_data" => DecidedBefore(i, trace[i].species)
    /\ DeniedUnserved

\* C9 as amended: loader.get_species_data(X) is reached only after the access
\* decision for the caller and X returned true, or, on the statistics
\* endpoint without a species filter, for X the caller's own access level;
\* a request answered 403 never reaches the cache.
C9_DecisionOrOwnCategory ==
    /\ \A i \in DOMAIN trace :
          trace[i].ev = "get_species_data" =>
              \/ DecidedBefore(i, trace[i].species)
              \/ /\ request.endpoint = "statistics"
                 /\ request.species = ""
                 /\ trace[i].species = request.caller
    /\ DeniedUnserved

\* a species request was served from the cache after its decision
C9_Witness ==
    /\ request # None
    /\ request.endpoint = "species"
    /\ request.caller = "setosa"
    /\ response.status = 200
    /\ Len(trace) = 2
    /\ trace[1].ev = "check_user_access"
    /\ trace[2].ev = "get_species_data"

\* the cache as it would be with the records of category c alone
Restrict(L, c) ==
    IF L.data = None \/ SubscriptError(L.data, "species") # "" THEN L
    ELSE [L EXCEPT !.data = FilterSpeciesLower(L.data, c)]

\* the response of request req's handler on loader L
Handle(req, L) ==
    LET current_user == [user_id |-> users_db[req.email].id, email |-> req.email,
                         access_level |-> req.caller]
    IN CASE req.endpoint = "summary" -> get_data_summary(current_user, L, source.file, now)
         [] req.endpoint = "species" ->
                get_species_data(current_user, req.species, req.limit, req.offset,
                                 L, source.file, now)
         [] req.endpoint = "my_data" -> get_my_data(current_user, L, source.file, now)
         [] req.endpoint = "statistics" ->
                get_statistics(current_user, req.species, L, source.file, now)

\* the species labels a response body carries
LabelsOf(req, body) ==
    CASE req.endpoint = "summary" ->
            DOMAIN body.summary.species_count
                \cup DOMAIN body.summary.statistics
                \cup {body.summary.statistics[sp].species : sp \in DOMAIN body.summary.statistics}
                \cup {body.accessible_species[i] : i \in DOMAIN body.accessible_species}
      [] req.endpoint \in {"species", "my_data"} ->
            {body.response.species, body.statistics.species}
                \cup {body.response.data[i].species : i \in DOMAIN body.response.data}
      [] req.endpoint = "statistics" -> DOMAIN body

\* a caller whose access level is one species got a 200 from a data endpoint
ServedOneSpecies ==
    /\ request # None
    /\ request.endpoint \in {"summary", "species", "my_data", "statistics"}
    /\ request.caller \notin {"", "all"}
    /\ response.status = 200

----------------------------------------------------------------------------
(* api/routes/auth.py: register and login.  A handler returns the response *)
(* (status, detail, body) and, for register, the user table and the id     *)
(* counter as it leaves them.                                              *)

\* security.verify_password (passlib): the hash verifies the password it was
\* made from and no other
verify_password(plain_password, hashed_password) ==
    hashed_password = hash_password(plain_password)

\* register that stores the new record whether or not the email is taken
register_overwriting(db, next_id, email, password, access_level) ==
    LET new_user == User(next_id, email, password,
                         IF access_level = "" THEN "setosa" ELSE access_level)
    IN [status |-> 201, detail |-> "",
        body |-> [id |-> new_user.id, email |-> new_user.email,
                  access_level |-> new_user.access_level,
                  is_active |-> new_user.is_active],
        db |-> [e \in DOMAIN db \cup {email} |-> IF e = email THEN new_user ELSE db[e]],
        next_id |-> next_id + 1]

\* POST /auth/register (auth.py register); access_level "" stands for None.
\* email is the address as EmailStr hands it over: the case of the part
\* before the @ is kept
register(db, next_id, email, password, access_level) ==
    IF email \in DOMAIN db
    THEN [status |-> 409, detail |-> "User with this email already exists", body |-> None,
          db |-> db, next_id |-> next_id]
    ELSE LET new_user == User(next_id, email, password,
                              IF access_level = "" THEN "setosa" ELSE access_level)
         IN [status |-> 201, detail |-> "",
             body |-> [id |-> new_user.id, email |-> new_user.email,
                       access_level |-> new_user.access_level,
                       is_active |-> new_user.is_active],
             db |-> (email :> new_user) @@ db, next_id |-> next_id + 1]

\* login that does not compare the password with the stored hash
login_any_password(db, email, password, clk) ==
    IF email \notin DOMAIN db
    THEN HTTPException(401, "Incorrect email or password")
    ELSE IF ~db[email].is_active
    THEN HTTPException(403, "User account is inactive")
    ELSE [ok |-> TRUE, exc |-> "", status |-> 200, detail |-> "",
          tokens |-> create_tokens(db[email].id, db[email].email,
                                   db[email].access_level, clk)]

\* login that tests is_active before the password
login_active_first(db, email, password, clk) ==
    IF email \notin DOMAIN db
    THEN HTTPException(401, "Incorrect email or password")
    ELSE IF ~db[email].is_active
    THEN HTTPException(403, "User account is inactive")
    ELSE IF ~verify_password(password, db[email].password)
    THEN HTTPException(401, "Incorrect email or password")
    ELSE [ok |-> TRUE, exc |-> "", status |-> 200, detail |-> "",
          tokens |-> create_tokens(db[email].id, db[email].email,
                                   db[email].access_level, clk)]

\* POST /auth/login (auth.py login)
login(db, email, password, clk) ==
    IF email \notin DOMAIN db
    THEN HTTPException(401, "Incorrect email or password")
    ELSE IF ~verify_password(password, db[email].password)
    THEN HTTPException(401, "Incorrect email or password")
    ELSE IF ~db[email].is_active
    THEN HTTPException(403, "User account is inactive")
    ELSE [ok |-> TRUE, exc |-> "", status |-> 200, detail |-> "",
          tokens |-> create_tokens(db[email].id, db[email].email,
                                   db[email].access_level, clk)]

----------------------------------------------------------------------------
(* Specification SpecAuth: users register and log in, one request at a time *)

\* the most users registered in one behaviour
MaxRegistered == 1

\* the emails, passwords and access levels of the requests
AuthEmails == {"setosa@example.com", "Setosa@example.com", "admin@example.com", "new@example.com"}
AuthPasswords == {"password123", "admin123", "letmein"}
RegisterAccess == {"", "virginica", "all"}

InitAuth ==
    /\ InitCommon
    /\ source = [file |-> AbsentFile, writes |-> 0]

\* POST /auth/register
Register(email, password, access_level) ==
    /\ Cardinality(DOMAIN users_db) < Cardinality(DOMAIN InitialUsers) + MaxRegistered
    /\ \E r \in {register(users_db, next_user_id, email, password, access_level)} :
          /\ request' = [endpoint |-> "register", email |-> email, password |-> password]
          /\ response' = [status |-> r.status, detail |-> r.detail, body |-> r.body]
          /\ users_db' = r.db
          /\ next_user_id' = r.next_id
    /\ UNCHANGED <<loaderVars, now, processVars, tokenVars, trace>>

\* POST /auth/login
Login(email, password) ==
    /\ \E r \in {login(users_db, email, password, now)} :
          /\ request' = [endpoint |-> "login", email |-> email, password |-> password]
          /\ response' = [status |-> r.status, detail |-> r.detail,
                          body |-> IF r.ok THEN r.tokens ELSE None]
          /\ pair' = IF r.ok
                     THEN [tokens |-> r.tokens, user_id |-> users_db[email].id,
                           email |-> email, access_level |-> users_db[email].access_level,
                           issued_at |-> now]
                     ELSE pair
    /\ UNCHANGED <<loaderVars, now, userVars, processVars, presented, outcome, held, trace>>

NextAuth ==
    \/ request = None /\ \E email \in AuthEmails, password \in AuthPasswords,
          access_level \in RegisterAccess : Register(email, password, access_level)
    \/ request = None /\ \E email \in AuthEmails, password \in AuthPasswords :
          Login(email, password)
    \/ Responded

SpecAuth == InitAuth /\ [][NextAuth]_vars

----------------------------------------------------------------------------
(* Claims about register and login (SpecAuth) *)

\* the request in progress is a login
IsLogin == request # None /\ request.endpoint = "login"

\* a user with the email of the login exists, the stored hash verifies the
\* password and the account is active
ValidCredentials ==
    /\ request.email \in DOMAIN users_db
    /\ users_db[request.email].password = hash_password(request.password)
    /\ users_db[request.email].is_active

----------------------------------------------------------------------------
(* More claims about the dataset cache *)

\* the step just taken by the main thread read the source: a load that
\* stamps the cache reads the clock, and the clock then moves on
LoadedNow == loader'.last_loaded = now /\ now' = now + 1

\* the main thread's call of load_data returned in the step just taken
LoadReturned ==
    /\ thr'[MainThread].meth = "load_data"
    /\ thr'[MainThread].res.kind = "ok"
    /\ LoadedNow

\* C12 (SpecLoader): a snapshot published by a successful load is not empty;
\* when dropping the records with an invalid category or a missing numeric
\* value leaves none, load_data raises DataLoadError.
C12_PublishedSnapshotNonEmpty ==
    [][LoadReturned => (loader'.data # None /\ loader'.data.rows # <<>>)]_vars

\* C13 (SpecLoader): after a successful load_data call every record of the
\* cached snapshot has a species label of the enumeration.
C13_LabelsInsideEnumeration ==
    (thr[MainThread].meth = "load_data" /\ thr[MainThread].res.kind = "ok") =>
        /\ loader.data # None
        /\ \A i \in DOMAIN loader.data.rows : loader.data.rows[i].species \in SpeciesEnum

\* the cache is Empty: neither data nor statistics nor a timestamp
IsEmpty(L) == L.data = None /\ L.data_stats = None /\ L.last_loaded = NoTime

\* C14 (SpecLoader): when a load triggered on an Empty cache fails, the cache
\* is Empty again: is_loaded is false and no data, statistics or timestamp
\* are published.
C14_FailedLoadLeavesEmpty ==
    [][(/\ IsEmpty(loader)
        /\ thr'[MainThread] # thr[MainThread]
        /\ thr'[MainThread].res.exc = "DataLoadError") => IsEmpty(loader')]_vars

\* C15 (SpecThreads): a thread that calls load_data() without force_reload on
\* a cache that holds a published snapshot (data, statistics and timestamp)
\* does not wait for the lock, whatever the other thread is doing.
C15_ReadsTakeNoLock ==
    \A t \in Threads :
        (/\ thr[t].meth = "load_data"
         /\ ~thr[t].force
         /\ thr[t].pt = "L58"
         /\ loader.data # None
         /\ loader.data_stats # None
         /\ loader.last_loaded # NoTime) => CanStep(t, thr[t], loader)

----------------------------------------------------------------------------
(* More claims about the token service (SpecToken) *)

\* a string that is not a JWT
MalformedToken == [wellformed |-> FALSE, key |-> "", payload |-> None]

\* what the caller of by sees when it presents token at time clk
Seen(by, token, clk) ==
    LET r == IF by = "get_current_user" THEN get_current_user(token, clk)
             ELSE refresh_token(users_db, token, clk)
    IN <<r.status, r.detail>>

\* C16: on the protected endpoints (get_current_user) and on the refresh
\* endpoint, a token that fails verification gets the status and detail that
\* any other token failing verification gets, whatever the cause: here, the
\* ones a string that is not a token gets.
C16_SingleFailureKind ==
    (/\ presented # None
     /\ presented.by \in {"get_current_user", "refresh_token"}
     /\ ~verify_token(presented.token, ExpectedKind, presented.at).ok) =>
        <<outcome.status, outcome.detail>>
            = Seen(presented.by, MalformedToken, presented.at)

----------------------------------------------------------------------------
(* More claims about the dataset cache under two threads (SpecThreads) *)

\* the program points that are an assignment to self._data: lines 66, 67 and
\* 73 of load_data, and line 112 of clear_cache
AssignsData == {"L66", "L67", "L73", "A112"}

\* C17: the cached data changes only by being replaced as a whole: the records
\* the cache holds differ after a step only when that step completed an
\* assignment to self._data.  A step that raises has assigned nothing, and no
\* read operation assigns.
C17_NeverMutatedInPlace ==
    [][\A t \in Threads :
          (thr'[t] # thr[t] /\ loader'.data # loader.data) =>
              (thr[t].pt \in AssignsData /\ thr'[t].res.kind # "exc")]_vars

----------------------------------------------------------------------------
(* Claims about the reads of the dataset cache (SpecLoader) *)

\* the main thread has just made the call meth (without force_reload)
JustCalled(meth) ==
    /\ thr'[MainThread] # thr[MainThread]
    /\ thr'[MainThread].meth = meth
    /\ ~thr'[MainThread].force

\* C18: on a cache that holds data, load_data() returns the cached records
\* and get_summary_statistics() the cached statistics bundle, and neither
\* changes the cache: a second call returns the same, and the statistics are
\* not recomputed by a read.
C18_ReadsAreIdempotent ==
    [][/\ (loader.data # None /\ JustCalled("load_data")) =>
            /\ thr'[MainThread].res = [kind |-> "ok", exc |-> "", val |-> loader.data]
            /\ loader' = loader
       /\ (loader.data # None /\ JustCalled("get_summary_statistics")) =>
            /\ thr'[MainThread].res = [kind |-> "ok", exc |-> "", val |-> loader.data_stats]
            /\ loader' = loader]_vars

\* C19: get_species_data(name) returns a subset that is not empty and whose
\* records all have the requested species, or raises DataNotFoundError; it
\* raises DataNotFoundError for a name outside the enumeration, and it never
\* returns an empty subset or raises anything else.
C19_SubsetOrNotFound ==
    (thr[MainThread].meth = "get_species_data" /\ thr[MainThread].pt = "done") =>
        LET res == thr[MainThread].res
            name == thr[MainThread].species
        IN /\ res.kind = "ok" =>
                /\ res.val.rows # <<>>
                /\ \A i \in DOMAIN res.val.rows : res.val.rows[i].species = Lower(name)
           /\ res.kind = "exc" => res.exc = "DataNotFoundError"
           /\ Lower(name) \notin SpeciesEnum => res.kind = "exc"

----------------------------------------------------------------------------
(* More claims about the data endpoints (SpecRoutes) *)

\* AccessValidator.get_accessible_species (core/validators.py)
get_accessible_species(user_access) ==
    IF user_access = "all" THEN <<"setosa", "virginica", "versicolor">>
    ELSE <<user_access>>

\* the request in progress is GET /data/species/list of an authenticated caller
IsSpeciesList ==
    /\ request # None
    /\ request.endpoint = "species_list"
    /\ request.caller # ""

\* C20: the list of accessible species is, for a caller with access level
\* 'all', the list of all species the cache knows (each label of a cached
\* record, once), and for every other caller the list of the caller's own
\* access level alone.
C20_AccessibleSpecies ==
    IsSpeciesList =>
        IF request.caller = "all"
        THEN response.status = 200 =>
                /\ {response.body[i] : i \in DOMAIN response.body}
                      = {loader.data.rows[i].species : i \in DOMAIN loader.data.rows}
                /\ \A i, j \in DOMAIN response.body :
                      response.body[i] = response.body[j] => i = j
        ELSE /\ response.status = 200
             /\ response.body = <<request.caller>>
             /\ response.body = get_accessible_species(request.caller)

\* the admin got the three species of the sample, and all of them are open
\* to the admin by the validator as well
C20_Witness ==
    /\ IsSpeciesList
    /\ request.caller = "all"
    /\ response.status = 200
    /\ response.body = <<"setosa", "versicolor", "virginica">>
    /\ \A i \in DOMAIN response.body :
          \E j \in DOMAIN get_accessible_species("all") :
              get_accessible_species("all")[j] = response.body[i]

----------------------------------------------------------------------------
(* Claims about the built-in sample (SpecSingleton) *)

\* the step just taken is a caller of the process (the startup or a handler)
\* running load_data to a load: on a new or Empty loader, or forced
LoadAttempted ==
    /\ source' = source
    /\ request' # None
    /\ request'.endpoint \in {"lifespan", "summary", "reload"}
    /\ \/ _loader = 0
       \/ instances[_loader].data = None
       \/ request'.endpoint = "reload"

\* the reads of loader L return the sample: its three species in order, and
\* for each of them the 20 records that carry it
ServesSample(L, src, clk) ==
    /\ Len(L.data.rows) = 60
    /\ CallLoader(L, "get_all_species", "", FALSE, src, clk).fr.res
          = [kind |-> "ok", exc |-> "", val |-> [list |-> <<"setosa", "versicolor", "virginica">>]]
    /\ \A s \in SpeciesEnum :
          LET got == CallLoader(L, "get_species_data", s, FALSE, src, clk).fr.res
          IN /\ got.kind = "ok"
             /\ Len(got.val.rows) = 20
             /\ \A i \in 1..20 : got.val.rows[i].species = s

\* the loader after a load at time t that found no file at data_path
SampleLoadedAt(t) == CallLoader(NewLoader, "load_data", "", FALSE, AbsentFile, t).L

\* whenever that load happened, the reads that follow it serve the sample
SampleServedAtAnyTime ==
    \A t \in 0..MaxLoadTime : ServesSample(SampleLoadedAt(t), AbsentFile, t + 1)

\* C21: with no file at data_path a load succeeds with the 60 records of the
\* sample; get_all_species then returns [setosa, versicolor, virginica] and
\* get_species_data 20 records of the species asked for, for each of the
\* three.
C21_AbsentSourceLoadsSample ==
    [][(LoadAttempted /\ ~source.file.exists) =>
           /\ response'.kind = "ok"
           /\ Len(response'.val.rows) = 60
           /\ instances'[request'.ref] = SampleLoadedAt(now)
           /\ SampleServedAtAnyTime]_vars

\* the startup has just preloaded the sample, there being no file at data_path
C21_Witness ==
    /\ ~source.file.exists
    /\ source.writes = 0
    /\ request # None
    /\ request.endpoint = "lifespan"
    /\ response.kind = "ok"
    /\ Len(instances[request.ref].data.rows) = 60

----------------------------------------------------------------------------
(* Claims about the user table (SpecAuth) *)

\* the step just taken is a register request for an email already in the table
RegistersTaken ==
    /\ request = None
    /\ request' # None
    /\ request'.endpoint = "register"
    /\ request'.email \in DOMAIN users_db

\* C22: registering an email that is already in the user table is answered
\* 409 and leaves the table and the id counter as they were.
C22_DuplicateRegisterRefused ==
    [][RegistersTaken =>
          /\ response'.status = 409
          /\ response'.body = None
          /\ users_db' = users_db
          /\ next_user_id' = next_user_id]_vars

\* the registration of setosa@example.com with another password was refused
\* and the record is the one the table started with
C22_Witness ==
    /\ request # None
    /\ request.endpoint = "register"
    /\ request.email = "setosa@example.com"
    /\ request.password = "letmein"
    /\ response.status = 409
    /\ users_db["setosa@example.com"] = InitialUsers["setosa@example.com"]
    /\ next_user_id = 4

\* C23: no two records of the user table share an id, every id is smaller
\* than next_user_id, and no two records have emails that are equal once
\* their case is folded.
C23_UniqueIdsAndEmails ==
    /\ \A e \in DOMAIN users_db : users_db[e].id < next_user_id
    /\ \A e1, e2 \in DOMAIN users_db :
          e1 # e2 =>
              /\ users_db[e1].id # users_db[e2].id
              /\ Lower(users_db[e1].email) # Lower(users_db[e2].email)

----------------------------------------------------------------------------
(* Claims about the failure signals of the data endpoints (SpecRoutes) *)

\* the step just taken is the handling of a data request whose caller was
\* authenticated
HandlesDataRequest ==
    /\ request = None
    /\ request' # None
    /\ request'.endpoint \in {"summary", "species_list", "species", "my_data", "statistics"}
    /\ request'.caller # ""

\* the j-th call of the handler was loader.get_species_data and raised
\* DataNotFoundError
RaisedNotFound(calls, j) ==
    /\ calls[j].ev = "get_species_data"
    /\ CallLoader(loader, "get_species_data", calls[j].species, FALSE, source.file, now)
           .fr.res.exc = "DataNotFoundError"

\* C24: on every data route a DataNotFoundError of the loader is answered 404
\* and a refused access decision 403; neither is answered with the 500 of the
\* internal errors.
C24_DistinctFailureSignals ==
    [][HandlesDataRequest =>
          \A j \in DOMAIN trace' :
              /\ RaisedNotFound(trace', j) => response'.status = 404
              /\ (trace'[j].ev = "check_user_access" /\ ~trace'[j].result) =>
                    response'.status = 403]_vars

----------------------------------------------------------------------------
(* Sessions: dependencies.get_current_active_user and the endpoints of      *)
(* auth.py that depend on it.                                               *)

\* dependencies.get_current_active_user: returns what get_current_user
\* returned (lines 134-136)
get_current_active_user(token, clk) == get_current_user(token, clk)

\* GET /auth/me (auth.py get_current_user_info)
get_current_user_info(db, current_user) ==
    IF UsersWithId(db, current_user.user_id) = {}
    THEN HTTPException(404, "User not found")
    ELSE LET user == db[CHOOSE e \in UsersWithId(db, current_user.user_id) : TRUE]
         IN [ok |-> TRUE, exc |-> "", status |-> 200, detail |-> "",
             body |-> [id |-> user.id, email |-> user.email,
                       access_level |-> user.access_level, is_active |-> user.is_active]]

\* POST /auth/logout (auth.py logout)
logout(current_user) ==
    [ok |-> TRUE, exc |-> "", status |-> 200, detail |-> "",
     body |-> [message |-> "Successfully logged out"]]

----------------------------------------------------------------------------
(* Specification SpecSession: users log in, refresh, call the protected     *)
(* endpoints of auth.py with the tokens they were handed and log out, while *)
(* time passes; an account of the user table may be deactivated (is_active, *)
(* which login and refresh_token read, set to False in the store).          *)

\* last clock reading (minutes) at which a pair is handed out
MaxSessionIssue == 0

\* the users that log in
SessionUsers == {"setosa@example.com", "admin@example.com"}
SessionPasswords == {"password123", "admin123"}

InitSession ==
    /\ InitCommon
    /\ source = [file |-> AbsentFile, writes |-> 0]

\* the response of a handler of auth.py that returned r with body b
Replies(req, r, b) ==
    /\ request' = req
    /\ response' = [status |-> r.status, detail |-> r.detail, body |-> b]
    /\ UNCHANGED <<loaderVars, now, userVars, processVars, pair, presented, outcome, trace>>

\* the clients keep the pair they were handed
Keeps(r) ==
    held' = IF r.ok
            THEN [held EXCEPT !.tokens = @ \cup {r.tokens.access_token, r.tokens.refresh_token}]
            ELSE held

\* POST /auth/login
SessionLogin(email, password) ==
    /\ now <= MaxSessionIssue
    /\ \E r \in {login(users_db, email, password, now)} :
          /\ Replies([endpoint |-> "login", token |-> MalformedToken, at |-> now], r,
                     IF r.ok THEN r.tokens ELSE None)
          /\ Keeps(r)

\* POST /auth/refresh
SessionRefresh(token) ==
    /\ now <= MaxSessionIssue
    /\ \E r \in {refresh_token(users_db, token, now)} :
          /\ Replies([endpoint |-> "refresh", token |-> token, at |-> now], r,
                     IF r.ok THEN r.tokens ELSE None)
          /\ Keeps(r)

\* GET /auth/me
Me(token) ==
    /\ \E auth \in {get_current_active_user(token, now)} :
          \E r \in {IF auth.ok THEN get_current_user_info(users_db, auth.user) ELSE auth} :
              Replies([endpoint |-> "me", token |-> token, at |-> now], r,
                      IF r.ok THEN r.body ELSE None)
    /\ UNCHANGED held

\* POST /auth/logout
Logout(token) ==
    /\ \E auth \in {get_current_active_user(token, now)} :
          \E r \in {IF auth.ok THEN logout(auth.user) ELSE auth} :
              Replies([endpoint |-> "logout", token |-> token, at |-> now], r,
                      IF r.ok THEN r.body ELSE None)
    /\ held' = [held EXCEPT !.logged_out = @ \cup {token}]

\* the account with email e is deactivated in the store
Deactivate(e) ==
    /\ users_db[e].is_active
    /\ users_db' = [users_db EXCEPT ![e].is_active = FALSE]
    /\ UNCHANGED <<loaderVars, now, next_user_id, processVars, tokenVars, routeVars>>

NextSession ==
    \/ request = None /\ Tick
    \/ request = None /\ \E e \in SessionUsers, password \in SessionPasswords :
          SessionLogin(e, password)
    \/ request = None /\ \E token \in held.tokens : SessionRefresh(token)
    \/ request = None /\ \E token \in held.tokens : Me(token)
    \/ request = None /\ \E token \in held.tokens : Logout(token)
    \/ request = None /\ \E e \in SessionUsers : Deactivate(e)
    \/ Responded

SpecSession == InitSession /\ [][NextSession]_vars

----------------------------------------------------------------------------
(* Specification SpecRefresh: users log in and refresh while accounts are   *)
(* registered and deactivated; a client may still hold a refresh token of   *)
(* an earlier run of the process.                                           *)

\* a refresh token that an earlier run of the process issued to the user it
\* had registered with id 4: users_db lives in memory and starts again from
\* its three users, the token stays valid for seven days
StaleTokens == {create_tokens(4, "old@example.com", "all", 0).refresh_token}

\* the accounts that are deactivated
RefreshUsers == SessionUsers \cup {"new@example.com"}

NextRefresh ==
    \/ request = None /\ \E e \in SessionUsers, password \in SessionPasswords :
          SessionLogin(e, password)
    \/ request = None /\ \E token \in held.tokens \cup StaleTokens : SessionRefresh(token)
    \/ request = None /\ Register("new@example.com", "letmein", "virginica")
    \/ request = None /\ \E e \in RefreshUsers \cap DOMAIN users_db : Deactivate(e)
    \/ Responded

SpecRefresh == InitSession /\ [][NextRefresh]_vars

----------------------------------------------------------------------------
(* Claims about sessions (SpecSession, SpecRefresh) *)

\* the request in progress carries an access token that a login or a refresh
\* handed out, to an endpoint that depends on get_current_active_user
CarriesIssuedAccessToken ==
    /\ request # None
    /\ request.endpoint \in {"me", "logout"}
    /\ request.token \in held.tokens
    /\ request.token.payload.type = "access"

\* C25: an access token that was handed out is accepted at every time up to
\* its embedded expiry and at no later time, whatever logins, refreshes and
\* logouts happened since and whatever the user table holds.
C25_TokensAreStateless ==
    CarriesIssuedAccessToken =>
        (response.status = 200 <=> request.at <= request.token.payload.exp)

\* a token that was presented to /auth/logout earlier is accepted later
C25_Witness ==
    /\ CarriesIssuedAccessToken
    /\ request.endpoint = "me"
    /\ request.token \in held.logged_out
    /\ request.at > 0
    /\ response.status = 200

\* the request in progress is a refresh with a refresh token that verifies
RefreshesWithValidToken ==
    /\ request # None
    /\ request.endpoint = "refresh"
    /\ verify_refresh_token(request.token, request.at).ok

\* the pair carries the identity of the record user
IssuedFor(tokens, user) ==
    \A t \in {tokens.access_token, tokens.refresh_token} :
        /\ t.payload.sub = StrOf(user.id)
        /\ t.payload.email = user.email
        /\ t.payload.access_level = user.access_level

\* C31: a refresh with a valid refresh token issues the new pair from the
\* record the user table holds for the subject id of the token (its email
\* and access level, not those of the token); it answers 404 and issues
\* nothing when no user has that id, and 403 when the user is inactive.
C31_RefreshFromCurrentRecord ==
    RefreshesWithValidToken =>
        LET ids == UsersWithId(users_db, IntOf(request.token.payload.sub))
        IN IF ids = {} THEN response.status = 404 /\ response.body = None
           ELSE \A e \in ids :
                   IF ~users_db[e].is_active
                   THEN response.status = 403 /\ response.body = None
                   ELSE response.status = 200 /\ IssuedFor(response.body, users_db[e])

\* the pair was issued for a record that differs from the claims of the token
C31_Witness ==
    /\ RefreshesWithValidToken
    /\ response.status = 200
    /\ response.body.access_token.payload.email # request.token.payload.email
    /\ response.body.access_token.payload.access_level # request.token.payload.access_level

\* the account the token of the request in progress was issued for
AccountOf(token) == users_db[token.payload.email]

\* C26: a request that carries a valid access token of a user whose account
\* is inactive is refused on the endpoints that depend on
\* get_current_active_user.
C26_InactiveUserRefused ==
    (/\ CarriesIssuedAccessToken
     /\ request.at <= request.token.payload.exp
     /\ ~AccountOf(request.token).is_active) => response.status # 200

----------------------------------------------------------------------------
(* data/processor.py: filter_outliers and normalize_data.                   *)
(* A frame is a sequence of rows, each with its index label and two of the  *)
(* measurement columns. Measurements are integers (tenths); mean and        *)
(* standard deviation are kept exact by scaling: with n rows of sum S, the  *)
(* deviation of x from the mean is (n*x - S)/n and the sample variance is   *)
(* SumSq/(n*n*(n-1)).                                                       *)

\* largest number of rows of a frame handed to the processor
MaxProcRows == 3

\* the float NaN of a computed cell
FloatNaN == [nan |-> TRUE]

\* df.columns (the numeric ones)
ProcColumns == {"sepal_length", "sepal_width"}

RECURSIVE SumCol(_, _, _)
SumCol(df, col, k) == IF k = 0 THEN 0 ELSE df[k][col] + SumCol(df, col, k - 1)

\* n * (x - df[col].mean())
Dev(df, col, x) == Len(df) * x - SumCol(df, col, Len(df))

RECURSIVE SumSqTo(_, _, _)
SumSqTo(df, col, k) ==
    IF k = 0 THEN 0
    ELSE Dev(df, col, df[k][col]) * Dev(df, col, df[k][col]) + SumSqTo(df, col, k - 1)

\* n * n * (n - 1) * df[col].std() ** 2
SumSq(df, col) == SumSqTo(df, col, Len(df))

\* the column holds one value in every row
IsConstant(df, col) == \A i, j \in DOMAIN df : df[i][col] = df[j][col]

\* the columns of df whose floating-point mean can differ from the one value
\* they hold (the sum of three or more equal floats is rounded); for such a
\* column the computed deviations are equal and not zero
CanRound(df) == {col \in ProcColumns : Len(df) >= 3 /\ IsConstant(df, col)}

\* z_scores <= n_std for the row whose value is x (processor.py 137-140);
\* a comparison with NaN is False: std is NaN for fewer than two rows, and
\* 0/0 is NaN when std is 0. When the mean of a constant column is rounded
\* every |z| is sqrt((n-1)/n).
z_within_keeping_constant(df, col, x, n_std, inexact) ==
    \/ Len(df) >= 1 /\ IsConstant(df, col)
    \/ /\ Len(df) >= 2
       /\ SumSq(df, col) > 0
       /\ Dev(df, col, x) * Dev(df, col, x) * (Len(df) - 1) <= n_std * n_std * SumSq(df, col)

z_within(df, col, x, n_std, inexact) ==
    /\ Len(df) >= 2
    /\ IF col \in inexact /\ col \in CanRound(df)
       THEN Len(df) - 1 <= n_std * n_std * Len(df)
       ELSE /\ SumSq(df, col) > 0
            /\ Dev(df, col, x) * Dev(df, col, x) * (Len(df) - 1)
                   <= n_std * n_std * SumSq(df, col)

\* the loop of filter_outliers taking mean and std from the filtered frame
RECURSIVE FilterProgressively(_, _, _, _, _)
FilterProgressively(df_filtered, columns, k, n_std, inexact) ==
    IF k > Len(columns) THEN df_filtered
    ELSE IF columns[k] \in ProcColumns
         THEN FilterProgressively(
                  SelectSeq(df_filtered,
                            LAMBDA r : z_within(df_filtered, columns[k], r[columns[k]],
                                                n_std, inexact)),
                  columns, k + 1, n_std, inexact)
         ELSE FilterProgressively(df_filtered, columns, k + 1, n_std, inexact)

\* the row of df with index label idx
RowAt(df, idx) == df[CHOOSE i \in DOMAIN df : df[i].idx = idx]

\* the loop of filter_outliers (lines 131-144): the mask is computed from df
\* and applied to df_filtered by index label
RECURSIVE FilterColumns(_, _, _, _, _, _)
FilterColumns(df, df_filtered, columns, k, n_std, inexact) ==
    IF k > Len(columns) THEN df_filtered
    ELSE IF columns[k] \in ProcColumns
         THEN FilterColumns(df,
                  SelectSeq(df_filtered,
                            LAMBDA r : z_within(df, columns[k], RowAt(df, r.idx)[columns[k]],
                                                n_std, inexact)),
                  columns, k + 1, n_std, inexact)
         ELSE FilterColumns(df, df_filtered, columns, k + 1, n_std, inexact)

filter_outliers_progressive(df, columns, n_std, inexact) ==
    FilterProgressively(df, columns, 1, n_std, inexact)

\* IrisDataProcessor.filter_outliers
filter_outliers(df, columns, n_std, inexact) ==
    FilterColumns(df, df, columns, 1, n_std, inexact)

\* f'{col}_normalized'
NormalizedName(col) ==
    CASE col = "sepal_length" -> "sepal_length_normalized"
      [] col = "sepal_width" -> "sepal_width_normalized"

\* float division num / den for finite operands, as an unreduced fraction;
\* 0.0 / 0.0 is NaN
Divide(num, den) ==
    IF den = 0 /\ num = 0 THEN FloatNaN
    ELSE IF den = 0 THEN [inf |-> TRUE]
    ELSE [num |-> num, den |-> den]

Min(S) == CHOOSE x \in S : \A y \in S : x <= y
Max(S) == CHOOSE x \in S : \A y \in S : x >= y
Values(df, col) == {df[i][col] : i \in DOMAIN df}

\* (df[col] - min_val) / (max_val - min_val) for the value x (lines 167-169)
minmax(df, col, x) == Divide(x - Min(Values(df, col)), Max(Values(df, col)) - Min(Values(df, col)))

\* (df[col] - mean) / std for the value x (lines 172-174): the quotient of
\* n*(x - mean) and the square root of over/under; NaN when std is NaN or 0
zscore(df, col, x) ==
    IF Len(df) < 2 \/ SumSq(df, col) = 0 THEN FloatNaN
    ELSE [num |-> Dev(df, col, x), root |-> [over |-> SumSq(df, col), under |-> Len(df) - 1]]

\* the loop of normalize_data (lines 163-174)
RECURSIVE NormalizeColumns(_, _, _, _, _)
NormalizeColumns(df, df_normalized, columns, k, method) ==
    IF k > Len(columns) THEN df_normalized
    ELSE IF columns[k] \in ProcColumns /\ method \in {"minmax", "zscore"}
         THEN NormalizeColumns(df,
                  [i \in DOMAIN df_normalized |->
                      (NormalizedName(columns[k]) :>
                          IF method = "minmax"
                          THEN minmax(df, columns[k], df[i][columns[k]])
                          ELSE zscore(df, columns[k], df[i][columns[k]]))
                      @@ df_normalized[i]],
                  columns, k + 1, method)
         ELSE NormalizeColumns(df, df_normalized, columns, k + 1, method)

\* IrisDataProcessor.normalize_data
normalize_data(df, columns, method) == NormalizeColumns(df, df, columns, 1, method)

----------------------------------------------------------------------------
(* Specification SpecProcessor: the processor is applied to small frames.   *)

\* measurements (tenths)
ProcValues == {0, 5}

\* frames with unique index labels, as get_species_data delivers them
ProcRows(n) == [1..n -> [sepal_length : ProcValues, sepal_width : ProcValues]]
Frames ==
    UNION {{[i \in 1..n |-> [idx |-> i, sepal_length |-> f[i].sepal_length,
                             sepal_width |-> f[i].sepal_width]] : f \in ProcRows(n)}
           : n \in 0..MaxProcRows}

\* the columns argument; a listed column that the frame lacks is skipped
ColumnLists ==
    {<<"sepal_length">>, <<"sepal_length", "sepal_width">>,
     <<"sepal_width", "sepal_length">>, <<"sepal_width", "petal_length">>}

\* n_std (default 3.0)
Thresholds == {1, 3}

Methods == {"minmax", "zscore", "none"}

InitProcessor ==
    /\ InitCommon
    /\ source = [file |-> AbsentFile, writes |-> 0]

Called(req, returned) ==
    /\ request' = req
    /\ response' = [returned |-> returned]
    /\ UNCHANGED <<loaderVars, now, userVars, processVars, tokenVars, trace>>

FilterOutliers(df, columns, n_std, inexact) ==
    Called([endpoint |-> "filter_outliers", df |-> df, columns |-> columns,
            n_std |-> n_std, inexact |-> inexact],
           filter_outliers(df, columns, n_std, inexact))

NormalizeData(df, columns, method) ==
    Called([endpoint |-> "normalize_data", df |-> df, columns |-> columns, method |-> method],
           normalize_data(df, columns, method))

NextProcessor ==
    \/ request = None /\ \E df \in Frames, columns \in ColumnLists, n_std \in Thresholds :
          \E inexact \in SUBSET CanRound(df) : FilterOutliers(df, columns, n_std, inexact)
    \/ request = None /\ \E df \in Frames, columns \in ColumnLists, method \in Methods :
          NormalizeData(df, columns, method)
    \/ Responded

SpecProcessor == InitProcessor /\ [][NextProcessor]_vars

----------------------------------------------------------------------------
(* Claims about the processor (SpecProcessor) *)

\* the columns of the call in progress that the frame has
Listed == {request.columns[k] : k \in DOMAIN request.columns} \cap ProcColumns

\* C27: normalize_data with method 'minmax' gives every record a defined
\* normalized value (not NaN) for a listed feature that is constant over the
\* frame.
C27_MinMaxConstantDefined ==
    (/\ request # None
     /\ request.endpoint = "normalize_data"
     /\ request.method = "minmax")
    => \A col \in Listed :
          IsConstant(request.df, col) =>
              \A i \in DOMAIN response.returned :
                  response.returned[i][NormalizedName(col)] # FloatNaN

\* rows of sub, in order, are rows of df
IsSubFrame(sub, df) ==
    /\ \A i \in DOMAIN sub : \E j \in DOMAIN df : sub[i] = df[j]
    /\ \A i, j \in DOMAIN sub : i < j => sub[i].idx < sub[j].idx

\* the call in progress is filter_outliers and a listed feature has one value
\* in every record
FiltersConstantFeature ==
    /\ request # None
    /\ request.endpoint = "filter_outliers"
    /\ Len(request.df) >= 1
    /\ \E col \in Listed : IsConstant(request.df, col)

\* C28: filter_outliers with n_std = 3 on a frame in which a listed feature
\* is constant returns a frame, fixed by the input and the rounding of the
\* mean: a sub-frame of the input, empty when the standard deviation of a
\* constant feature is computed as NaN or as zero, and the whole input when
\* every listed feature is constant with a rounded mean.
C28_ZeroStdDefined ==
    (FiltersConstantFeature /\ request.n_std = 3)
    => /\ IsSubFrame(response.returned, request.df)
       /\ (\E col \in Listed : IsConstant(request.df, col) /\ col \notin request.inexact)
              => response.returned = <<>>
       /\ (\A col \in Listed : IsConstant(request.df, col) /\ col \in request.inexact)
              => response.returned = request.df

C28_Witness ==
    /\ FiltersConstantFeature
    /\ request.n_std = 3
    /\ Len(request.df) = 3
    /\ request.inexact = {}
    /\ response.returned = <<>>

\* the z-score of every listed feature is defined: two records or more, and
\* the feature takes two values or more
ZScoresDefined ==
    /\ Len(request.df) >= 2
    /\ \A col \in Listed : ~IsConstant(request.df, col)

\* |z| <= n_std for record r on feature col, mean and standard deviation
\* taken over the whole frame df: (x - S/n)^2 <= n_std^2 * var
AbsZAtMost(df, col, r, n_std) ==
    LET n == Len(df)
        S == SumCol(df, col, n)
        sq == SumSq(df, col)
    IN (n * r[col] - S) * (n * r[col] - S) * (n - 1) <= n_std * n_std * sq

\* C29: filter_outliers returns exactly the records of the input whose
\* absolute z-score is at most n_std on every listed feature, with mean and
\* standard deviation taken over the whole input; the result is a sub-frame
\* of the input.
C29_ExactlyWithinEveryFeature ==
    (/\ request # None
     /\ request.endpoint = "filter_outliers"
     /\ ZScoresDefined)
    => /\ IsSubFrame(response.returned, request.df)
       /\ response.returned
              = SelectSeq(request.df,
                          LAMBDA r : \A col \in Listed :
                                        AbsZAtMost(request.df, col, r, request.n_std))

\* a record inside the threshold on the first feature and outside on the
\* second was removed, and another record was removed by the first feature
C29_Witness ==
    /\ request # None
    /\ request.endpoint = "filter_outliers"
    /\ ZScoresDefined
    /\ Listed = ProcColumns
    /\ Len(response.returned) = 1
    /\ Len(request.df) = 3
    /\ \E i, j \in DOMAIN request.df :
          /\ i # j
          /\ ~AbsZAtMost(request.df, "sepal_length", request.df[i], request.n_std)
          /\ AbsZAtMost(request.df, "sepal_length", request.df[j], request.n_std)
          /\ ~AbsZAtMost(request.df, "sepal_width", request.df[j], request.n_std)

----------------------------------------------------------------------------
(* The loader of the process: loader.py get_data_loader and main.py         *)
(* lifespan. Specification SpecSingleton: the application starts, then its  *)
(* handlers fetch the loader and use it, one at a time; the file at         *)
(* data_path may be replaced.                                               *)

\* largest number of IrisDataLoader objects created
MaxInstances == 2

\* a get_data_loader that makes a new loader at every call
get_data_loader_always_new(ptr, heap, data_path) ==
    [_loader |-> Len(heap) + 1, instances |-> Append(heap, NewLoader), ref |-> Len(heap) + 1]

\* loader.py get_data_loader, on the global ptr and the objects heap:
\* the new value of the global, the objects, and the object returned
get_data_loader(ptr, heap, data_path) ==
    IF ptr = 0 \/ data_path # None
    THEN [_loader |-> Len(heap) + 1, instances |-> Append(heap, NewLoader),
          ref |-> Len(heap) + 1]
    ELSE [_loader |-> ptr, instances |-> heap, ref |-> ptr]

\* settings.data_path (config.py)
settings_data_path == "data/iris.csv"

InitSingleton ==
    /\ InitCommon
    /\ \E f \in SourceFiles(MaxRewriteRows) : source = [file |-> f, writes |-> 0]

\* a caller fetched the loader (g) and called meth on it
Uses(endpoint, g, meth, force) ==
    /\ Len(g.instances) <= MaxInstances
    /\ \E r \in {CallLoader(g.instances[g.ref], meth, "", force, source.file, now)} :
          /\ _loader' = g._loader
          /\ instances' = [g.instances EXCEPT ![g.ref] = r.L]
          /\ now' = IF r.L.last_loaded = now THEN now + 1 ELSE now
          /\ request' = [endpoint |-> endpoint, ref |-> g.ref]
          /\ response' = r.fr.res
    /\ UNCHANGED <<loaderVars, userVars, tokenVars, trace>>

\* main.py lifespan, up to the yield
Startup(cache_data) ==
    /\ ~started
    /\ started' = TRUE
    /\ IF cache_data
       THEN Uses("lifespan", get_data_loader(_loader, instances, settings_data_path),
                 "load_data", FALSE)
       ELSE UNCHANGED <<loaderVars, now, userVars, _loader, instances, tokenVars, routeVars>>

\* a handler of data.py or admin.py: loader = get_data_loader(), then the call
Handler(endpoint, meth, force) ==
    /\ started
    /\ now < MaxLoadTime
    /\ started' = started
    /\ Uses(endpoint, get_data_loader(_loader, instances, None), meth, force)

NextSingleton ==
    \/ \E cache_data \in BOOLEAN : Startup(cache_data)
    \/ Handler("summary", "load_data", FALSE)
    \/ Handler("species", "get_all_species", FALSE)
    \/ Handler("reload", "load_data", TRUE)
    \/ Handler("clear-cache", "clear_cache", FALSE)
    \/ \E f \in SourceFiles(MaxRewriteRows) : WriteSource(f)

SpecSingleton == InitSingleton /\ [][NextSingleton]_vars

\* C30: the process has one loader: every get_data_loader() call returns the
\* object the first call made, so what the startup or a reload loaded is
\* what every other caller reads, and no second loader is ever made.
C30_OneLoaderPerProcess ==
    /\ Len(instances) <= 1
    /\ _loader \in {0, 1}
    /\ request # None => (request.ref = 1 /\ _loader = 1)

\* a handler reads, from the loader the startup made, the snapshot that a
\* reload published after the preload
C30_Witness ==
    /\ request # None
    /\ request.endpoint = "species"
    /\ request.ref = 1
    /\ response.kind = "ok"
    /\ instances[1].last_loaded >= 1
    /\ instances[1].data # None

----------------------------------------------------------------------------
(* Claims about the admin endpoints (SpecRoutes) *)

AdminEndpoints == {"reload_data", "upload_data", "clear_cache", "config"}

\* the step just taken receives a request of an admin endpoint
HandlesAdminRequest ==
    /\ request = None
    /\ request' # None
    /\ request'.endpoint \in AdminEndpoints

\* C32: an admin request runs only when its X-Admin-Key header equals the
\* configured admin key: without the header it is answered 401, with another
\* key 403, and in both cases the cache (data, statistics, timestamp) and
\* the file at data_path stay as they were; with the key it is answered
\* neither 401 nor 403.
C32_AdminKeyRequired ==
    [][HandlesAdminRequest =>
          /\ request'.key = "" => response'.status = 401
          /\ request'.key \notin {"", admin_key} => response'.status = 403
          /\ request'.key # admin_key => (loader' = loader /\ source' = source)
          /\ request'.key = admin_key => response'.status \notin {401, 403}]_vars

\* a clear-cache with a wrong key was refused while the cache held a snapshot
C32_Witness ==
    /\ request # None
    /\ request.endpoint = "clear_cache"
    /\ request.key = "wrong-key"
    /\ response.status = 403
    /\ loader.data # None
    /\ loader.last_loaded # NoTime

----------------------------------------------------------------------------
(* Claims about pagination (SpecRoutes) *)

\* records lo+1 .. hi of rows (counted from 1), none when hi <= lo
Range(rows, lo, hi) ==
    IF hi <= lo THEN <<>> ELSE [i \in 1..(hi - lo) |-> rows[lo + i]]

\* records o .. min(o+l, n)-1 of rows, counted from 0
Page(rows, limit, offset) ==
    LET n == Len(rows)
        o == IF offset = NoParam THEN 0 ELSE offset
        end == IF limit = NoParam \/ o + limit > n THEN n ELSE o + limit
    IN Range(rows, IF o > n THEN n ELSE o, end)

\* the step just taken receives a request of the species endpoint that
\* passes the checks of the species name, the token and the access level
ServesSpecies ==
    /\ request = None
    /\ request' # None
    /\ request'.endpoint = "species"
    /\ response'.status \notin {400, 401, 403}

----------------------------------------------------------------------------
(* Specification SpecLoadOnce: the threads call load_data() without force   *)
(* on an Empty cache; the file at data_path passes validation.              *)

\* the files of at most n rows that read_csv parses and _validate_data accepts
ValidFiles(n) ==
    {f \in SourceFiles(n) : f.exists /\ ~f.empty /\ _validate_data(f.df).ok}

InitLoadOnce ==
    /\ InitCommon
    /\ \E f \in ValidFiles(MaxRowsThreads) : source = [file |-> f, writes |-> 0]

NextLoadOnce ==
    \/ \E t \in Threads : BeginLoadData(t, FALSE)
    \/ \E t \in Threads : ThreadStep(t)

SpecLoadOnce == InitLoadOnce /\ [][NextLoadOnce]_vars

\* thread t reads the source in the step just taken (line 66)
ReadsSource(t) == thr[t].pt = "L66" /\ thr'[t].pt # "L66"

\* thread t leaves load_data in the step just taken
LeavesLoad(t) == thr[t].pt # "done" /\ thr'[t].pt = "done"

\* C34: when threads call load_data() without force on an Empty cache with a
\* valid source, the source is read once: a thread reads it only while the
\* cache is Empty and it holds the lock, the cache never becomes Empty
\* again, and every caller returns the records that were published.
C34_LoadedExactlyOnce ==
    [][/\ \A t \in Threads :
             ReadsSource(t) =>
                 /\ loader.data = None
                 /\ loader.last_loaded = NoTime
                 /\ loader.lock = t
                 /\ loader'.data # None
       /\ loader.data # None => loader'.data # None
       /\ \A t \in Threads :
             LeavesLoad(t) =>
                 /\ thr'[t].res.kind = "ok"
                 /\ thr'[t].res.val = loader'.data
                 /\ IsValidated(loader'.data)
                 /\ loader'.last_loaded = 0]_vars

\* one thread has loaded and is about to return while the other waits for
\* the lock
C34_Witness ==
    /\ thr["t1"].pt = "L77"
    /\ loader.lock = "t1"
    /\ thr["t2"].pt = "L58"
    /\ IsValidated(loader.data)

----------------------------------------------------------------------------
(* Claims about the load lock under interleaving (SpecThreads) *)

\* thread t is inside a method of the loader and cannot take a step: it is
\* at line 58 and the lock is held
Blocked(t) == thr[t].pt = "L58" /\ loader.lock # NoThread

\* C35: every load_data call can run to its end and release the lock: no
\* thread waits at line 58 for the lock that it holds itself (having entered
\* load_data again through _calculate_stats and get_species_count).
C35_LoadReleasesLock ==
    \A t \in Threads : ~(Blocked(t) /\ loader.lock = t)

\* C36: in get_species_data, get_all_species and get_species_count the
\* cached data is not None at the moment it is filtered or enumerated: the
\* is_loaded check before the read is never undone by a concurrent
\* clear-cache or failing load.
C36_ReadsLoadedSnapshot ==
    \A t \in Threads : AtRead(t) => loader.data # None

----------------------------------------------------------------------------
(* The three access decisions: security.check_user_access (above),        *)
(* core/validators.py AccessValidator and the loader's own method.        *)

\* AccessValidator.validate_species_access
AccessValidator_validate_species_access(user_access, requested_species) ==
    IF user_access = "all" THEN TRUE
    ELSE Lower(user_access) = Lower(requested_species)

\* IrisDataLoader.validate_species_access
IrisDataLoader_validate_species_access(species, user_access) ==
    IF user_access = "all" THEN TRUE
    ELSE Lower(species) = Lower(user_access)

InitAccess ==
    /\ InitCommon
    /\ source = [file |-> AbsentFile, writes |-> 0]

Decide(impl, user_access, species, returned) ==
    Called([endpoint |-> impl, user_access |-> user_access, species |-> species],
           returned)

NextAccess ==
    \/ request = None /\ \E user_access \in UserAccessEnum, species \in Strings :
          Decide("check_user_access", user_access, species,
                 check_user_access(user_access, species))
    \/ request = None /\ \E user_access \in UserAccessEnum, species \in Strings :
          Decide("AccessValidator.validate_species_access", user_access, species,
                 AccessValidator_validate_species_access(user_access, species))
    \/ request = None /\ \E user_access \in UserAccessEnum, species \in Strings :
          Decide("IrisDataLoader.validate_species_access", user_access, species,
                 IrisDataLoader_validate_species_access(species, user_access))
    \/ Responded

SpecAccess == InitAccess /\ [][NextAccess]_vars

\* C37: for every access level and requested species, the boolean one of
\* the three access decisions returned is the boolean the two others return
\* for the same pair.
C37_AccessDecisionsAgree ==
    request # None =>
        /\ response.returned = check_user_access(request.user_access, request.species)
        /\ response.returned =
              AccessValidator_validate_species_access(request.user_access, request.species)
        /\ response.returned =
              IrisDataLoader_validate_species_access(request.species, request.user_access)

----------------------------------------------------------------------------
(* Specification SpecLogin: logins with right and wrong credentials while *)
(* accounts are deactivated                                               *)

NextLogin ==
    \/ request = None /\ \E email \in AuthEmails, password \in AuthPasswords :
          Login(email, password)
    \/ request = None /\ \E e \in DOMAIN users_db : Deactivate(e)
    \/ Responded

SpecLogin == InitSession /\ [][NextLogin]_vars

\* the login in progress names an account of the store
KnownEmail == request.email \in DOMAIN users_db

\* ... and carries its password
CorrectPassword ==
    KnownEmail /\ verify_password(request.password, users_db[request.email].password)

LoginAnswered == request # None /\ request.endpoint = "login"

\* C38: a login with an unknown email or a wrong password is answered 401
\* 'Incorrect email or password' with no body, whether the account is
\* active or not; 403 'User account is inactive' is answered only to the
\* correct password of an inactive account.
C38_FailedLoginIndistinguishable ==
    LoginAnswered =>
        /\ ~CorrectPassword =>
              /\ response.status = 401
              /\ response.detail = "Incorrect email or password"
              /\ response.body = None
        /\ response.status = 403 =>
              CorrectPassword /\ ~users_db[request.email].is_active

\* a wrong password for an inactive account was answered 401
C38_Witness ==
    /\ LoginAnswered
    /\ KnownEmail
    /\ ~users_db[request.email].is_active
    /\ ~CorrectPassword
    /\ response.status = 401

====
